---- MODULE Spec2Model ----
(***************************************************************************)
(* A model of the procurement assistant's core: the durable requisition    *)
(* approval workflow (workflows/procurement_workflows.py), the approver    *)
(* chain resolver, the human gate policies of the agents and the agent     *)
(* decision loop (agents/core/base_agent.py).                              *)
(*                                                                         *)
(* Monetary amounts are Python floats in the source; here they are         *)
(* integers counted in cents, so that "one cent above a threshold" is a    *)
(* value of the model.  Workflow time is counted in minutes.               *)
(***************************************************************************)
EXTENDS Integers, Sequences, FiniteSets, TLC

Dollars(d) == d * 100
Hours(h) == h * 60

\* ------------------------------------------------------------------ bounds
\* How many activity completions of one run may take a non-zero time.
MaxDelays == 1
\* The non-zero time (minutes) such an activity takes.
ActivityLatency == 1
\* The most line items of a create_requisition call.
MaxItems == 2
\* The most tool calls the oracle proposes in one turn.
MaxToolCalls == 2
\* The most oracle (LLM) calls of one conversational task that are explored.
MaxOracleCalls == 3
\* The same for a task whose oracle proposes one tool call per turn.
MaxLongCalls == 11
\* The most agent runs the orchestrator starts.
MaxRuns == 2
\* The most failed attempts explored of an activity that is retried without
\* limit.
MaxRetries == 2
\* The most words of a chat message.
MaxWords == 2
\* The most agent ids of a chain.
MaxChain == 2

\* --------------------------------------------------------------- variables
VARIABLES
    \* RequisitionApprovalWorkflow: the run's input, its position and fields
    requisition, run_pc, current_step, approved, rejected, rejection_reason,
    \* locals of run()
    approvers, idx, now, deadline, status, result,
    \* the activities executed so far (side effects on the collaborators)
    notified, escalated, po_generated, po_sent,
    \* bookkeeping of the environment
    delays, sig_rejected_level,
    \* the status store: the workflow time at which the approval of each tier's approver was recorded (-1: none)
    store_approved_at,
    \* what the last get_status query returned to its caller
    queried,
    \* how the collaborators behind the activities answer in this run
    collab,
    \* the workflow time at which the current tier's wait began (line 366)
    wait_start,
    \* how many times determine_approvers was executed
    resolutions,
    \* the answer of validate_budget (budget_check of run)
    budget_check,
    \* failed attempts of the activity being executed
    attempt,
    \* the tier at which the waited-on approver's Approved signal arrived
    sig_approved_level,
    \* the human gate applied to one tool call
    gate_agent, gate_call, gate_pc, gate_result,
    \* the approver chain resolver applied to two totals
    res_pc, res_a, res_b, chain_a, chain_b,
    \* the agent decision loop: AgentState and the graph's position
    agent, node, messages, pending_approval, tool_results, llm_calls, invoked,
    response,
    \* AgentFactory._instances (its keys), the runs AgentOrchestrator.execute
    \* has started, and the outcome of the last call of either
    f_instances, orch_runs, orch_out,
    \* InvoiceValidationWorkflow: the run's input, its position, its locals,
    \* the activities it has executed in order, the arguments of its
    \* create_exception calls, and what it returned
    invoice_id, inv_pc, invoice, po_match, line_matches, price_validation,
    receipt_check, inv_calls, exception_args, inv_result,
    \* the chat endpoint: the request (its words and the agent id it asks
    \* for), the endpoint's position, the agent id it determined, its reply
    chat_message, chat_requested, chat_pc, chat_agent_id, chat_out,
    \* AgentOrchestrator.execute_chain: its arguments agent_ids and context,
    \* the dict the caller passed (None when it passed none), the position of
    \* the for loop, the locals current_context and current_message, whether
    \* current_context is the caller's dict, the agents run, the outcome
    ch_ids, ch_arg, caller_context, ch_pc, current_context, current_message,
    ch_aliased, ch_ran, ch_out

wf_fields == <<current_step, approved, rejected, rejection_reason>>
wf_locals == <<approvers, idx, now, deadline, status, result>>
wf_effects == <<notified, escalated, po_generated, po_sent>>
wf_ghosts == <<delays, sig_rejected_level, sig_approved_level, attempt, budget_check,
              resolutions, wait_start, collab, queried, store_approved_at>>
wf_vars == <<requisition, run_pc, wf_fields, wf_locals, wf_effects, wf_ghosts>>

gate_vars == <<gate_agent, gate_call, gate_pc, gate_result>>
loop_vars == <<agent, node, messages, pending_approval, tool_results, llm_calls,
               invoked, response>>

res_vars == <<res_pc, res_a, res_b, chain_a, chain_b>>

orch_vars == <<f_instances, orch_runs, orch_out>>

inv_locals == <<invoice, po_match, line_matches, price_validation, receipt_check>>
inv_vars == <<invoice_id, inv_pc, inv_locals, inv_calls, exception_args, inv_result>>

chat_vars == <<chat_message, chat_requested, chat_pc, chat_agent_id, chat_out>>
chain_vars == <<ch_ids, ch_arg, caller_context, ch_pc, current_context,
                current_message, ch_aliased, ch_ran, ch_out>>
route_vars == <<chat_vars, chain_vars>>

vars == <<wf_vars, gate_vars, res_vars, loop_vars, orch_vars, inv_vars, route_vars>>

\* Each part of the model leaves the other parts alone.
OutsideWorkflow ==
    UNCHANGED <<gate_vars, res_vars, loop_vars, orch_vars, inv_vars, route_vars>>
OutsideGate ==
    UNCHANGED <<wf_vars, res_vars, loop_vars, orch_vars, inv_vars, route_vars>>
OutsideResolver ==
    UNCHANGED <<wf_vars, gate_vars, loop_vars, orch_vars, inv_vars, route_vars>>
OutsideLoop ==
    UNCHANGED <<wf_vars, gate_vars, res_vars, orch_vars, inv_vars, route_vars>>
OutsideOrchestrator ==
    UNCHANGED <<wf_vars, gate_vars, res_vars, loop_vars, inv_vars, route_vars>>
OutsideInvoice ==
    UNCHANGED <<wf_vars, gate_vars, res_vars, loop_vars, orch_vars, route_vars>>
OutsideChat ==
    UNCHANGED <<wf_vars, gate_vars, res_vars, loop_vars, orch_vars, inv_vars, chain_vars>>
OutsideChain ==
    UNCHANGED <<wf_vars, gate_vars, res_vars, loop_vars, orch_vars, inv_vars, chat_vars>>

\* ------------------------------------------------------------ the resolver
Levels == 1..4

\* determine_approvers with the first threshold inclusive (>= for >).
determine_approvers_Inclusive(req) ==
    LET total == req.total
        a1 == IF total >= Dollars(500)
              THEN <<[level |-> 1, role |-> "manager",
                      approver_id |-> "manager_001"]>>
              ELSE <<>>
        a2 == IF total > Dollars(5000)
              THEN <<[level |-> 2, role |-> "director",
                      approver_id |-> "director_001"]>>
              ELSE <<>>
        a3 == IF total > Dollars(25000)
              THEN <<[level |-> 3, role |-> "vp",
                      approver_id |-> "vp_001"]>>
              ELSE <<>>
        a4 == IF total > Dollars(100000)
              THEN <<[level |-> 4, role |-> "cfo",
                      approver_id |-> "cfo_001"]>>
              ELSE <<>>
    IN  a1 \o a2 \o a3 \o a4

\* determine_approvers with the manager's threshold mistyped (50 for 500).
determine_approvers_LowFloor(req) ==
    LET total == req.total
        a1 == IF total > Dollars(50)
              THEN <<[level |-> 1, role |-> "manager",
                      approver_id |-> "manager_001"]>>
              ELSE <<>>
        a2 == IF total > Dollars(5000)
              THEN <<[level |-> 2, role |-> "director",
                      approver_id |-> "director_001"]>>
              ELSE <<>>
        a3 == IF total > Dollars(25000)
              THEN <<[level |-> 3, role |-> "vp",
                      approver_id |-> "vp_001"]>>
              ELSE <<>>
        a4 == IF total > Dollars(100000)
              THEN <<[level |-> 4, role |-> "cfo",
                      approver_id |-> "cfo_001"]>>
              ELSE <<>>
    IN  a1 \o a2 \o a3 \o a4

\* determine_approvers with the vp's threshold mistyped (250000 for 25000).
determine_approvers_VpThresholdTypo(req) ==
    LET total == req.total
        a1 == IF total > Dollars(500)
              THEN <<[level |-> 1, role |-> "manager",
                      approver_id |-> "manager_001"]>>
              ELSE <<>>
        a2 == IF total > Dollars(5000)
              THEN <<[level |-> 2, role |-> "director",
                      approver_id |-> "director_001"]>>
              ELSE <<>>
        a3 == IF total > Dollars(250000)
              THEN <<[level |-> 3, role |-> "vp",
                      approver_id |-> "vp_001"]>>
              ELSE <<>>
        a4 == IF total > Dollars(100000)
              THEN <<[level |-> 4, role |-> "cfo",
                      approver_id |-> "cfo_001"]>>
              ELSE <<>>
    IN  a1 \o a2 \o a3 \o a4

\* determine_approvers: four independent tests, each appending one approver.
determine_approvers(req) ==
    LET total == req.total
        a1 == IF total > Dollars(500)
              THEN <<[level |-> 1, role |-> "manager",
                      approver_id |-> "manager_001"]>>
              ELSE <<>>
        a2 == IF total > Dollars(5000)
              THEN <<[level |-> 2, role |-> "director",
                      approver_id |-> "director_001"]>>
              ELSE <<>>
        a3 == IF total > Dollars(25000)
              THEN <<[level |-> 3, role |-> "vp",
                      approver_id |-> "vp_001"]>>
              ELSE <<>>
        a4 == IF total > Dollars(100000)
              THEN <<[level |-> 4, role |-> "cfo",
                      approver_id |-> "cfo_001"]>>
              ELSE <<>>
    IN  a1 \o a2 \o a3 \o a4

\* ------------------------------------------------- the approval workflow
\* The requisitions a run is started with: (total in dollars, urgency).
RequisitionInputs ==
    { <<0, "rush">>,
      <<300, "standard">>, <<300, "rush">>, <<300, "emergency">>,
      <<500, "standard">>,
      <<3000, "standard">>, <<3000, "rush">>, <<3000, "emergency">>,
      <<6000, "rush">> }

Requisitions ==
    { [total |-> Dollars(p[1]), urgency |-> p[2]] : p \in RequisitionInputs }

\* Python's None where the value is otherwise a dict.
PyNone == [none |-> TRUE]

Reasons == {"over_budget"}
None == "None"

\* What check_approval_status may answer (the status of the requisition in
\* the backing store); "reason" is an optional key of the answer.
StatusResults ==
    { [approved |-> FALSE, rejected |-> FALSE],
      [approved |-> TRUE, rejected |-> FALSE],
      [approved |-> TRUE, rejected |-> TRUE],
      [approved |-> FALSE, rejected |-> TRUE] }
    \cup { [approved |-> FALSE, rejected |-> TRUE, reason |-> r] : r \in Reasons }

Pending == [approved |-> FALSE, rejected |-> FALSE]

ApproverIds == {"manager_001", "director_001", "vp_001", "cfo_001", "intruder_009"}

NoResult == [status |-> "none"]

\* generate_purchase_order: the PO number is derived from the requisition id,
\* one requisition per run.
generate_purchase_order(req) == "PO-000001"

\* sla_hours with the short SLA given to "rush" only.
sla_hours_RushOnly(req) == IF req.urgency = "rush" THEN 8 ELSE 48

\* sla_hours of line 365
sla_hours(req) == IF req.urgency = "standard" THEN 48 ELSE 8

\* The workflow time at which run() starts.
RunStart == 0

\* The deadline counted from the start of the run instead of workflow.now().
TierDeadline_FromRunStart(t, req) == RunStart + Hours(sla_hours(req))

\* Line 366: deadline = workflow.now() + timedelta(hours=sla_hours), evaluated
\* at workflow time t.
TierDeadline(t, req) == t + Hours(sla_hours(req))

\* A polling timer that does not advance the workflow time.
check_interval_None == Hours(0)

\* Line 367: timedelta(minutes=15)
check_interval == 15

grace_hours == 4

CurApprover == approvers[idx]

Terminated == run_pc = "done"

\* The end-to-end scenario: the requisition, and how long after the start of
\* its wait each tier's approval is recorded in the store.
ScenarioRequisition == [total |-> Dollars(30000), urgency |-> "rush"]

ScenarioApprovalDelay(level) ==
    CASE level = 1 -> Hours(2)
      [] level = 2 -> Hours(3)
      [] OTHER -> Hours(1)

\* validate_budget's answers: any, or in the scenario the stub's (line 76).
BudgetAnswers == IF collab = "scenario" THEN {TRUE} ELSE BOOLEAN

\* check_approval_status's answers at workflow time t: any, or in the
\* scenario the decision recorded for the tier waited on.
StatusAnswers(t) ==
    IF collab = "scenario"
    THEN { IF t - wait_start >= ScenarioApprovalDelay(approvers[idx].level)
           THEN [approved |-> TRUE, rejected |-> FALSE]
           ELSE Pending }
    ELSE IF collab = "store"
    THEN { IF \E l \in Levels : store_approved_at[l] >= 0
           THEN [approved |-> TRUE, rejected |-> FALSE]
           ELSE Pending }
    ELSE StatusResults

\* send_po_to_vendor's answers: any, or in the scenario the stub's (line 153).
VendorAnswers == IF collab = "scenario" THEN {TRUE} ELSE BOOLEAN

\* An activity completes after d minutes; only MaxDelays completions of a
\* run take a non-zero time.
Latency(d) ==
    /\ d \in (IF delays < MaxDelays THEN {0, ActivityLatency} ELSE {0})
    /\ delays' = IF d > 0 THEN delays + 1 ELSE delays

\* __init__ (lines 297-301) and the activities not yet executed.
WfFresh ==
    /\ current_step = "initialized"
    /\ approved = FALSE
    /\ rejected = FALSE
    /\ rejection_reason = None
    /\ approvers = <<>>
    /\ idx = 0
    /\ now = RunStart
    /\ deadline = 0
    /\ status = Pending
    /\ result = NoResult
    /\ notified = [l \in Levels |-> 0]
    /\ escalated = [l \in Levels |-> 0]
    /\ po_generated = 0
    /\ po_sent = 0
    /\ delays = 0
    /\ sig_rejected_level = 0
    /\ store_approved_at = [l \in Levels |-> 0 - 1]
    /\ queried = PyNone
    /\ wait_start = 0
    /\ resolutions = 0
    /\ budget_check = PyNone
    /\ attempt = 0
    /\ sig_approved_level = 0

WfInit ==
    /\ requisition \in Requisitions
    /\ run_pc = "init"
    /\ collab = "any"
    /\ WfFresh

WfIdle ==
    /\ requisition = [total |-> 0, urgency |-> "standard"]
    /\ run_pc = "idle"
    /\ collab = "any"
    /\ WfFresh

\* run() returns r
Return(r) ==
    /\ result' = r
    /\ run_pc' = "done"

\* Lines 303-313: run() starts and schedules validate_budget.
StartRun ==
    /\ run_pc = "init"
    /\ current_step' = "validating_budget"
    /\ run_pc' = "validate_budget"
    /\ UNCHANGED <<requisition, approved, rejected, rejection_reason, wf_locals,
                   wf_effects, delays, sig_rejected_level>>
    /\ UNCHANGED sig_approved_level
    /\ UNCHANGED attempt
    /\ UNCHANGED budget_check
    /\ UNCHANGED resolutions
    /\ UNCHANGED wait_start
    /\ UNCHANGED collab
    /\ UNCHANGED queried
    /\ UNCHANGED store_approved_at
    /\ OutsideWorkflow

\* The test of line 315 taken as always passing.
BudgetAvailable_Unchecked(bc) == TRUE

\* Line 315: budget_check["available"]
BudgetAvailable(bc) == bc.available

\* Lines 308-322: validate_budget answers; an unavailable budget ends the run.
ValidateBudgetDone ==
    /\ run_pc = "validate_budget"
    /\ \E available \in BudgetAnswers, d \in {0, ActivityLatency} :
        /\ Latency(d)
        /\ now' = now + d
        /\ budget_check' = [available |-> available]
        /\ IF ~BudgetAvailable(budget_check')
           THEN /\ Return([status |-> "rejected", reason |-> "Insufficient budget",
                           details |-> budget_check'])
                /\ UNCHANGED current_step
           ELSE /\ current_step' = "determining_approvers"
                /\ run_pc' = "determine_approvers"
                /\ UNCHANGED result
    /\ UNCHANGED <<requisition, approved, rejected, rejection_reason, approvers,
                   idx, deadline, status, wf_effects, sig_rejected_level>>
    /\ UNCHANGED sig_approved_level
    /\ attempt' = 0
    /\ UNCHANGED resolutions
    /\ UNCHANGED wait_start
    /\ UNCHANGED collab
    /\ UNCHANGED queried
    /\ UNCHANGED store_approved_at
    /\ OutsideWorkflow

\* Lines 325-345: the chain is resolved; an empty chain goes straight to the PO.
DetermineApproversDone ==
    /\ run_pc = "determine_approvers"
    /\ \E d \in {0, ActivityLatency} :
        /\ Latency(d)
        /\ now' = now + d
    /\ approvers' = determine_approvers(requisition)
    /\ resolutions' = resolutions + 1
    /\ IF approvers' = <<>>
       THEN /\ current_step' = "generating_po"
            /\ run_pc' = "generate_po_auto"
            /\ UNCHANGED idx
       ELSE /\ current_step' = "awaiting_approvals"
            /\ idx' = 1
            /\ run_pc' = "send_notification"
    /\ UNCHANGED <<requisition, approved, rejected, rejection_reason, deadline,
                   status, result, wf_effects, sig_rejected_level>>
    /\ UNCHANGED sig_approved_level
    /\ UNCHANGED attempt
    /\ UNCHANGED budget_check
    /\ UNCHANGED wait_start
    /\ UNCHANGED collab
    /\ UNCHANGED queried
    /\ UNCHANGED store_approved_at
    /\ OutsideWorkflow

\* Lines 334-343: the auto-approved run generates the PO and returns.
GeneratePoAutoDone ==
    /\ run_pc = "generate_po_auto"
    /\ \E d \in {0, ActivityLatency} :
        /\ Latency(d)
        /\ now' = now + d
    /\ po_generated' = po_generated + 1
    /\ Return([status |-> "complete",
               po_number |-> generate_purchase_order(requisition),
               auto_approved |-> TRUE])
    /\ UNCHANGED <<requisition, wf_fields, approvers, idx, deadline, status,
                   notified, escalated, po_sent, sig_rejected_level>>
    /\ UNCHANGED sig_approved_level
    /\ UNCHANGED attempt
    /\ UNCHANGED budget_check
    /\ UNCHANGED resolutions
    /\ UNCHANGED wait_start
    /\ UNCHANGED collab
    /\ UNCHANGED queried
    /\ UNCHANGED store_approved_at
    /\ OutsideWorkflow

\* The for loop of line 348 moves on: the next approver, or lines 416-424.
NextApprover ==
    IF idx < Len(approvers)
    THEN /\ idx' = idx + 1
         /\ run_pc' = "send_notification"
         /\ UNCHANGED <<approved, current_step>>
    ELSE /\ approved' = TRUE
         /\ current_step' = "generating_po"
         /\ run_pc' = "generate_po"
         /\ UNCHANGED idx

\* AfterWait with the SLA test of line 392 off by one (> for >=).
AfterWait_StrictlyLate(t, dl) ==
    IF t > dl
    THEN /\ run_pc' = "escalate"
         /\ UNCHANGED <<idx, approved, current_step>>
    ELSE NextApprover

\* Lines 391-398: after the while loop, at workflow time t with deadline dl.
AfterWait(t, dl) ==
    IF t >= dl
    THEN /\ run_pc' = "escalate"
         /\ UNCHANGED <<idx, approved, current_step>>
    ELSE NextApprover

\* The while loop of line 369 left without a status check.
WhileTest_SkipsWait(t, dl) == NextApprover

\* Line 369: the while test at workflow time t with deadline dl.
WhileTest(t, dl) ==
    IF t < dl
    THEN /\ run_pc' = "check_status"
         /\ UNCHANGED <<idx, approved, current_step>>
    ELSE AfterWait(t, dl)

\* Lines 357-369: the tier's approver is notified, the deadline is computed.
SendNotificationDone ==
    /\ run_pc = "send_notification"
    /\ \E d \in {0, ActivityLatency} :
        /\ Latency(d)
        /\ now' = now + d
    /\ notified' = [notified EXCEPT ![CurApprover.level] = @ + 1]
    /\ wait_start' = now'
    /\ deadline' = TierDeadline(now', requisition)
    /\ WhileTest(now', deadline')
    /\ UNCHANGED <<requisition, rejected, rejection_reason, approvers, status,
                   result, escalated, po_generated, po_sent, sig_rejected_level>>
    /\ UNCHANGED sig_approved_level
    /\ attempt' = 0
    /\ UNCHANGED budget_check
    /\ UNCHANGED resolutions
    /\ UNCHANGED collab
    /\ UNCHANGED queried
    /\ UNCHANGED store_approved_at
    /\ OutsideWorkflow

\* Lines 371-389: one status check of the polling loop.
CheckStatusDone ==
    /\ run_pc = "check_status"
    /\ \E d \in {0, ActivityLatency} : \E s \in StatusAnswers(now + d) :
        /\ Latency(d)
        /\ now' = now + d
        /\ status' = s
        /\ IF s.approved
           THEN /\ AfterWait(now', deadline)
                /\ UNCHANGED <<rejected, rejection_reason, result>>
           ELSE IF s.rejected
           THEN /\ rejected' = TRUE
                /\ rejection_reason' =
                       (IF "reason" \in DOMAIN s THEN s.reason
                        ELSE "Rejected by approver")
                /\ Return([status |-> "rejected",
                           reason |-> rejection_reason',
                           approver |-> CurApprover.approver_id])
                /\ UNCHANGED <<idx, approved, current_step>>
           ELSE /\ run_pc' = "sleep_poll"
                /\ UNCHANGED <<idx, approved, current_step, rejected,
                               rejection_reason, result>>
    /\ UNCHANGED <<requisition, approvers, deadline, wf_effects,
                   sig_rejected_level>>
    /\ UNCHANGED sig_approved_level
    /\ UNCHANGED attempt
    /\ UNCHANGED budget_check
    /\ UNCHANGED resolutions
    /\ UNCHANGED wait_start
    /\ UNCHANGED collab
    /\ UNCHANGED queried
    /\ UNCHANGED store_approved_at
    /\ OutsideWorkflow

\* Line 389 and line 369: the 15 minute timer fires, the loop tests again.
SleepPollDone ==
    /\ run_pc = "sleep_poll"
    /\ now' = now + check_interval
    /\ WhileTest(now', deadline)
    /\ UNCHANGED <<requisition, rejected, rejection_reason, approvers, deadline,
                   status, result, wf_effects, delays, sig_rejected_level>>
    /\ UNCHANGED sig_approved_level
    /\ UNCHANGED attempt
    /\ UNCHANGED budget_check
    /\ UNCHANGED resolutions
    /\ UNCHANGED wait_start
    /\ UNCHANGED collab
    /\ UNCHANGED queried
    /\ UNCHANGED store_approved_at
    /\ OutsideWorkflow

\* Lines 394-401: the escalation is sent, the grace timer is started.
EscalateDone ==
    /\ run_pc = "escalate"
    /\ \E d \in {0, ActivityLatency} :
        /\ Latency(d)
        /\ now' = now + d
    /\ escalated' = [escalated EXCEPT ![CurApprover.level] = @ + 1]
    /\ run_pc' = "sleep_grace"
    /\ UNCHANGED <<requisition, wf_fields, approvers, idx, deadline, status,
                   result, notified, po_generated, po_sent, sig_rejected_level>>
    /\ UNCHANGED sig_approved_level
    /\ attempt' = 0
    /\ UNCHANGED budget_check
    /\ UNCHANGED resolutions
    /\ UNCHANGED wait_start
    /\ UNCHANGED collab
    /\ UNCHANGED queried
    /\ UNCHANGED store_approved_at
    /\ OutsideWorkflow

\* Line 401: the 4 hour timer fires.
SleepGraceDone ==
    /\ run_pc = "sleep_grace"
    /\ now' = now + Hours(grace_hours)
    /\ run_pc' = "final_check"
    /\ UNCHANGED <<requisition, wf_fields, approvers, idx, deadline, status,
                   result, wf_effects, delays, sig_rejected_level>>
    /\ UNCHANGED sig_approved_level
    /\ UNCHANGED attempt
    /\ UNCHANGED budget_check
    /\ UNCHANGED resolutions
    /\ UNCHANGED wait_start
    /\ UNCHANGED collab
    /\ UNCHANGED queried
    /\ UNCHANGED store_approved_at
    /\ OutsideWorkflow

\* Lines 404-414: the final check after the grace period.
FinalCheckDone ==
    /\ run_pc = "final_check"
    /\ \E d \in {0, ActivityLatency} : \E s \in StatusAnswers(now + d) :
        /\ Latency(d)
        /\ now' = now + d
        /\ status' = s
        /\ IF ~s.approved
           THEN /\ Return([status |-> "escalated_timeout",
                           details |-> "Approval not received after escalation"])
                /\ UNCHANGED <<idx, approved, current_step>>
           ELSE /\ NextApprover
                /\ UNCHANGED result
    /\ UNCHANGED <<requisition, rejected, rejection_reason, approvers, deadline,
                   wf_effects, sig_rejected_level>>
    /\ UNCHANGED sig_approved_level
    /\ UNCHANGED attempt
    /\ UNCHANGED budget_check
    /\ UNCHANGED resolutions
    /\ UNCHANGED wait_start
    /\ UNCHANGED collab
    /\ UNCHANGED queried
    /\ UNCHANGED store_approved_at
    /\ OutsideWorkflow

\* Lines 420-426: the PO is generated.
GeneratePoDone ==
    /\ run_pc = "generate_po"
    /\ \E d \in {0, ActivityLatency} :
        /\ Latency(d)
        /\ now' = now + d
    /\ po_generated' = po_generated + 1
    /\ current_step' = "sending_to_vendor"
    /\ run_pc' = "send_po"
    /\ UNCHANGED <<requisition, approved, rejected, rejection_reason, approvers,
                   idx, deadline, status, result, notified, escalated, po_sent,
                   sig_rejected_level>>
    /\ UNCHANGED sig_approved_level
    /\ UNCHANGED attempt
    /\ UNCHANGED budget_check
    /\ UNCHANGED resolutions
    /\ UNCHANGED wait_start
    /\ UNCHANGED collab
    /\ UNCHANGED queried
    /\ UNCHANGED store_approved_at
    /\ OutsideWorkflow

\* Lines 429-440: the PO is transmitted, run() returns.
SendPoDone ==
    /\ run_pc = "send_po"
    /\ \E sent \in VendorAnswers, d \in {0, ActivityLatency} :
        /\ Latency(d)
        /\ now' = now + d
        /\ Return([status |-> "complete",
                   po_number |-> generate_purchase_order(requisition),
                   sent_to_vendor |-> sent])
    /\ po_sent' = po_sent + 1
    /\ UNCHANGED <<requisition, wf_fields, approvers, idx, deadline, status,
                   notified, escalated, po_generated, sig_rejected_level>>
    /\ UNCHANGED sig_approved_level
    /\ attempt' = 0
    /\ UNCHANGED budget_check
    /\ UNCHANGED resolutions
    /\ UNCHANGED wait_start
    /\ UNCHANGED collab
    /\ UNCHANGED queried
    /\ UNCHANGED store_approved_at
    /\ OutsideWorkflow

\* RetryPolicy(maximum_attempts=...) of the two activities that have one.
validate_budget_attempts == 3

send_po_attempts == 5

\* An exception reaches run(), which handles none: the run fails.
Raise(e) ==
    /\ result' = [status |-> "failed", error |-> e]
    /\ run_pc' = "done"

\* Lines 308-313: an attempt of validate_budget fails; the third failure is
\* raised in run().
ValidateBudgetFails ==
    /\ run_pc = "validate_budget"
    /\ IF attempt + 1 < validate_budget_attempts
       THEN /\ attempt' = attempt + 1
            /\ UNCHANGED <<run_pc, result>>
       ELSE /\ attempt' = 0
            /\ Raise("validate_budget")
    /\ UNCHANGED <<requisition, wf_fields, approvers, idx, now, deadline, status,
                   wf_effects, delays, sig_rejected_level, sig_approved_level>>
    /\ UNCHANGED budget_check
    /\ UNCHANGED resolutions
    /\ UNCHANGED wait_start
    /\ UNCHANGED collab
    /\ UNCHANGED queried
    /\ UNCHANGED store_approved_at
    /\ OutsideWorkflow

\* Lines 429-434: an attempt of send_po_to_vendor fails; the fifth failure is
\* raised in run().
SendPoFails ==
    /\ run_pc = "send_po"
    /\ IF attempt + 1 < send_po_attempts
       THEN /\ attempt' = attempt + 1
            /\ UNCHANGED <<run_pc, result>>
       ELSE /\ attempt' = 0
            /\ Raise("send_po_to_vendor")
    /\ UNCHANGED <<requisition, wf_fields, approvers, idx, now, deadline, status,
                   wf_effects, delays, sig_rejected_level, sig_approved_level>>
    /\ UNCHANGED budget_check
    /\ UNCHANGED resolutions
    /\ UNCHANGED wait_start
    /\ UNCHANGED collab
    /\ UNCHANGED queried
    /\ UNCHANGED store_approved_at
    /\ OutsideWorkflow

\* An attempt of an activity that has no retry policy of its own fails: the
\* failure is retried (the run stays at the activity), or, when it is not
\* retryable, it is raised in run().
UnboundedRetryFails(activity) ==
    \E retryable \in BOOLEAN :
        IF retryable
        THEN /\ attempt < MaxRetries
             /\ attempt' = attempt + 1
             /\ UNCHANGED <<run_pc, result>>
        ELSE /\ attempt' = 0
             /\ Raise(activity)

\* Lines 358-362: an attempt of send_approval_notification fails.
NotificationFails ==
    /\ run_pc = "send_notification"
    /\ UnboundedRetryFails("send_approval_notification")
    /\ UNCHANGED <<requisition, wf_fields, approvers, idx, now, deadline, status,
                   wf_effects, delays, sig_rejected_level, sig_approved_level,
                   budget_check, resolutions, wait_start, collab, queried>>
    /\ UNCHANGED store_approved_at
    /\ OutsideWorkflow

\* Lines 394-398: an attempt of escalate_approval fails.
EscalationFails ==
    /\ run_pc = "escalate"
    /\ UnboundedRetryFails("escalate_approval")
    /\ UNCHANGED <<requisition, wf_fields, approvers, idx, now, deadline, status,
                   wf_effects, delays, sig_rejected_level, sig_approved_level,
                   budget_check, resolutions, wait_start, collab, queried>>
    /\ UNCHANGED store_approved_at
    /\ OutsideWorkflow

\* The run is in the polling loop of a tier and the deadline has not passed.
WaitingBeforeDeadline ==
    /\ run_pc \in {"check_status", "sleep_poll"}
    /\ now < deadline

\* The run is waiting for the decision of a tier (polling loop or grace).
WaitingOnTier ==
    run_pc \in {"check_status", "sleep_poll", "escalate", "sleep_grace",
                "final_check"}

\* The handler of lines 442-454 run also after run() has returned.
approval_received_AfterReturn(approver_id, is_approved, reason) ==
    /\ run_pc \notin {"idle", "init"}
    /\ IF is_approved
       THEN /\ approved' = TRUE
            /\ UNCHANGED <<rejected, rejection_reason>>
       ELSE /\ rejected' = TRUE
            /\ rejection_reason' = reason
            /\ UNCHANGED approved
    /\ sig_rejected_level' =
           (IF /\ ~is_approved
               /\ sig_rejected_level = 0
               /\ WaitingBeforeDeadline
               /\ approver_id = CurApprover.approver_id
            THEN CurApprover.level
            ELSE sig_rejected_level)
    /\ sig_approved_level' =
           (IF /\ is_approved
               /\ sig_approved_level = 0
               /\ WaitingBeforeDeadline
               /\ approver_id = CurApprover.approver_id
            THEN CurApprover.level
            ELSE sig_approved_level)
    /\ UNCHANGED <<requisition, run_pc, current_step, wf_locals, wf_effects,
                   delays>>
    /\ UNCHANGED attempt
    /\ UNCHANGED budget_check
    /\ UNCHANGED resolutions
    /\ UNCHANGED wait_start
    /\ UNCHANGED collab
    /\ UNCHANGED queried
    /\ UNCHANGED store_approved_at
    /\ OutsideWorkflow

\* Lines 442-454: the signal handler; it runs between two steps of run(). A
\* run that has returned is closed and is delivered no signal.
approval_received(approver_id, is_approved, reason) ==
    /\ run_pc \notin {"idle", "init", "done"}
    /\ IF is_approved
       THEN /\ approved' = TRUE
            /\ UNCHANGED <<rejected, rejection_reason>>
       ELSE /\ rejected' = TRUE
            /\ rejection_reason' = reason
            /\ UNCHANGED approved
    /\ sig_rejected_level' =
           (IF /\ ~is_approved
               /\ sig_rejected_level = 0
               /\ WaitingBeforeDeadline
               /\ approver_id = CurApprover.approver_id
            THEN CurApprover.level
            ELSE sig_rejected_level)
    /\ sig_approved_level' =
           (IF /\ is_approved
               /\ sig_approved_level = 0
               /\ WaitingBeforeDeadline
               /\ approver_id = CurApprover.approver_id
            THEN CurApprover.level
            ELSE sig_approved_level)
    /\ UNCHANGED <<requisition, run_pc, current_step, wf_locals, wf_effects,
                   delays>>
    /\ UNCHANGED attempt
    /\ UNCHANGED budget_check
    /\ UNCHANGED resolutions
    /\ UNCHANGED wait_start
    /\ UNCHANGED collab
    /\ UNCHANGED queried
    /\ UNCHANGED store_approved_at
    /\ OutsideWorkflow

\* get_status that clears the rejection reason it has reported.
get_status_ClearsReason ==
    /\ run_pc # "idle"
    /\ queried' = [current_step |-> current_step, approved |-> approved,
                   rejected |-> rejected, rejection_reason |-> rejection_reason]
    /\ rejection_reason' = None
    /\ UNCHANGED <<requisition, run_pc, current_step, approved, rejected,
                   wf_locals, wf_effects, delays, sig_rejected_level,
                   sig_approved_level, attempt, budget_check, resolutions,
                   wait_start, collab>>
    /\ UNCHANGED store_approved_at
    /\ OutsideWorkflow

\* Lines 456-464: the query handler; it may run between any two steps of
\* run() and after run() has returned.
get_status ==
    /\ run_pc # "idle"
    /\ queried' = [current_step |-> current_step, approved |-> approved,
                   rejected |-> rejected, rejection_reason |-> rejection_reason]
    /\ UNCHANGED <<requisition, run_pc, wf_fields, wf_locals, wf_effects, delays,
                   sig_rejected_level, sig_approved_level, attempt, budget_check,
                   resolutions, wait_start, collab>>
    /\ UNCHANGED store_approved_at
    /\ OutsideWorkflow

\* The approver the run waits on approves: the approval is recorded in the
\* status store, under the requisition's id, at the current workflow time.
ApproverApproves ==
    /\ WaitingOnTier
    /\ store_approved_at[CurApprover.level] < 0
    /\ store_approved_at' = [store_approved_at EXCEPT ![CurApprover.level] = now]
    /\ UNCHANGED <<requisition, run_pc, wf_fields, wf_locals, wf_effects, delays,
                   sig_rejected_level, sig_approved_level, attempt, budget_check,
                   resolutions, wait_start, collab, queried>>
    /\ OutsideWorkflow

\* The signals sent: an approval carries no reason (the default of line 447),
\* a rejection carries one.
Signal ==
    \E a \in ApproverIds, ap \in BOOLEAN :
        \E r \in (IF ap THEN {None} ELSE Reasons) :
            approval_received(a, ap, r)

WfNext ==
    \/ StartRun
    \/ ValidateBudgetDone
    \/ DetermineApproversDone
    \/ GeneratePoAutoDone
    \/ SendNotificationDone
    \/ CheckStatusDone
    \/ SleepPollDone
    \/ EscalateDone
    \/ SleepGraceDone
    \/ FinalCheckDone
    \/ GeneratePoDone
    \/ SendPoDone
    \/ Signal

\* The steps of run(): what the worker executes, as opposed to the signals
\* that the environment may or may not send.
RunStep ==
    \/ StartRun
    \/ ValidateBudgetDone
    \/ DetermineApproversDone
    \/ GeneratePoAutoDone
    \/ SendNotificationDone
    \/ CheckStatusDone
    \/ SleepPollDone
    \/ EscalateDone
    \/ SleepGraceDone
    \/ FinalCheckDone
    \/ GeneratePoDone
    \/ SendPoDone


\* ---------------------------------------------------------- the human gate
\* A Python dict is a function whose domain is the set of keys present.
EmptyDict == [k \in {} |-> 0]

\* dict.get(key, default)
Get(dict, key, default) == IF key \in DOMAIN dict THEN dict[key] ELSE default

SeqsUpTo(S, n) == UNION { [1..k -> S] : k \in 0..n }

\* The agents: the configured threshold of each (AgentConfig's default is 0.0)
\* and the class that decides _requires_human_review.
RequisitionAgent ==
    [agent_id |-> "requisition", kind |-> "requisition",
     human_in_loop_threshold |-> Dollars(25000), max_iterations |-> 10]

PriceWatchAgent ==
    [agent_id |-> "price-watch", kind |-> "price-watch",
     human_in_loop_threshold |-> 0, max_iterations |-> 10]

PriceCompareAgent ==
    [agent_id |-> "price-compare", kind |-> "base",
     human_in_loop_threshold |-> 0, max_iterations |-> 10]

\* Agents that keep the base class's policy, under several configurations.
BaseAgents ==
    { [agent_id |-> "base", kind |-> "base", human_in_loop_threshold |-> t,
       max_iterations |-> 10] :
        t \in {0 - Dollars(1), 0, Dollars(1000)} }

GateAgents == {RequisitionAgent, PriceWatchAgent, PriceCompareAgent} \cup BaseAgents

GateItems ==
    { ("unit_price" :> Dollars(10000)) @@ ("quantity" :> 3),
      ("unit_price" :> Dollars(100)) @@ ("quantity" :> 5),
      ("unit_price" :> Dollars(12500)) @@ ("quantity" :> 2),
      ("unit_price" :> (Dollars(25000) + 1)),
      ("quantity" :> 4) }

GateAmounts ==
    { 0, Dollars(1000) - 1, Dollars(1000), Dollars(1000) + 1,
      Dollars(25000), Dollars(25000) + 1 }

GateArgs ==
    { a @@ l @@ i :
        a \in {EmptyDict} \cup { ("amount" :> v) : v \in GateAmounts },
        l \in {EmptyDict} \cup { ("level" :> v) : v \in {"info", "warning", "critical"} },
        i \in {EmptyDict} \cup { ("items" :> v) : v \in SeqsUpTo(GateItems, MaxItems) } }

GateCalls ==
    { [name |-> n, args |-> a] :
        n \in {"create_requisition", "send_slack_alert", "route_approval"},
        a \in GateArgs }

\* sum(item.get("unit_price", 0) * item.get("quantity", 1) for item in items)
RECURSIVE ItemsTotal(_)
ItemsTotal(items) ==
    IF items = <<>> THEN 0
    ELSE Get(Head(items), "unit_price", 0) * Get(Head(items), "quantity", 1)
         + ItemsTotal(Tail(items))

\* The default policy without the test of line 197.
ProcurementAgent_requires_human_review_NoGuard(a, tool_call) ==
    IF "amount" \in DOMAIN tool_call.args
    THEN tool_call.args["amount"] > a.human_in_loop_threshold
    ELSE FALSE

\* The default policy failing closed: a call without an amount is gated.
ProcurementAgent_requires_human_review_FailClosed(a, tool_call) ==
    IF a.human_in_loop_threshold <= 0 THEN FALSE
    ELSE IF "amount" \in DOMAIN tool_call.args
         THEN tool_call.args["amount"] > a.human_in_loop_threshold
         ELSE TRUE

\* ProcurementAgent._requires_human_review (the default policy)
ProcurementAgent_requires_human_review(a, tool_call) ==
    IF a.human_in_loop_threshold <= 0 THEN FALSE
    ELSE IF "amount" \in DOMAIN tool_call.args
         THEN tool_call.args["amount"] > a.human_in_loop_threshold
         ELSE FALSE

\* RequisitionAgent._requires_human_review with >= for > in line 355.
RequisitionAgent_requires_human_review_AtLeast(a, tool_call) ==
    IF tool_call.name = "create_requisition"
    THEN ItemsTotal(Get(tool_call.args, "items", <<>>)) >= a.human_in_loop_threshold
    ELSE FALSE

\* RequisitionAgent._requires_human_review
RequisitionAgent_requires_human_review(a, tool_call) ==
    IF tool_call.name = "create_requisition"
    THEN ItemsTotal(Get(tool_call.args, "items", <<>>)) > a.human_in_loop_threshold
    ELSE FALSE

\* PriceWatchAgent._requires_human_review without the test of the tool's name.
PriceWatchAgent_requires_human_review_AnyTool(a, tool_call) ==
    Get(tool_call.args, "level", "info") = "critical"

\* PriceWatchAgent._requires_human_review
PriceWatchAgent_requires_human_review(a, tool_call) ==
    IF tool_call.name = "send_slack_alert"
    THEN Get(tool_call.args, "level", "info") = "critical"
    ELSE FALSE

\* self._requires_human_review(tool_call, state): the method of the agent's class
_requires_human_review(a, tool_call) ==
    CASE a.kind = "requisition" -> RequisitionAgent_requires_human_review(a, tool_call)
      [] a.kind = "price-watch" -> PriceWatchAgent_requires_human_review(a, tool_call)
      [] OTHER -> ProcurementAgent_requires_human_review(a, tool_call)

GateIdle ==
    /\ gate_agent = PriceCompareAgent
    /\ gate_call = [name |-> "route_approval", args |-> EmptyDict]
    /\ gate_pc = "idle"
    /\ gate_result = FALSE

GateInit ==
    /\ gate_agent \in GateAgents
    /\ gate_call \in GateCalls
    /\ gate_pc = "ready"
    /\ gate_result = FALSE

\* One evaluation of the gate on the drawn agent and tool call.
EvaluateGate ==
    /\ gate_pc = "ready"
    /\ gate_result' = _requires_human_review(gate_agent, gate_call)
    /\ gate_pc' = "done"
    /\ UNCHANGED <<gate_agent, gate_call>>
    /\ OutsideGate

GateNext == EvaluateGate

GateDone == gate_pc = "done"

\* ------------------------------------------- the resolver as a function
ResolverTotals ==
    { 0 - Dollars(1), 0, 1, Dollars(300),
      Dollars(500) - 1, Dollars(500), Dollars(500) + 1,
      Dollars(5000) - 1, Dollars(5000), Dollars(5000) + 1,
      Dollars(25000) - 1, Dollars(25000), Dollars(25000) + 1, Dollars(30000),
      Dollars(100000) - 1, Dollars(100000), Dollars(100000) + 1,
      Dollars(1000000) }

ResIdle ==
    /\ res_pc = "idle"
    /\ res_a = 0
    /\ res_b = 0
    /\ chain_a = <<>>
    /\ chain_b = <<>>

ResInit ==
    /\ res_pc = "ready"
    /\ res_a \in ResolverTotals
    /\ res_b \in ResolverTotals
    /\ chain_a = <<>>
    /\ chain_b = <<>>

\* determine_approvers is executed for each of the two requisitions.
Resolve ==
    /\ res_pc = "ready"
    /\ chain_a' = determine_approvers([total |-> res_a])
    /\ chain_b' = determine_approvers([total |-> res_b])
    /\ res_pc' = "done"
    /\ UNCHANGED <<res_a, res_b>>
    /\ OutsideResolver

ResNext == Resolve

Roles(chain) == [i \in 1..Len(chain) |-> chain[i].role]

\* ------------------------------------------------------- the decision loop
\* The agents a conversational task runs on.
LoopAgents == {RequisitionAgent, PriceWatchAgent, PriceCompareAgent}

\* What the oracle proposes: a large requisition and a critical alert.
LoopCalls ==
    { [name |-> "create_requisition",
       args |-> ("items" :> <<("unit_price" :> Dollars(10000)) @@ ("quantity" :> 3)>>)],
      [name |-> "send_slack_alert", args |-> ("level" :> "critical")] }

\* The tool calls of an AI message; the i-th call of the n-th oracle answer
\* has the id <<n, i>>.
WithIds(calls, n) ==
    [i \in 1..Len(calls) |->
        [name |-> calls[i].name, args |-> calls[i].args, id |-> <<n, i>>]]

Last(seq) == seq[Len(seq)]

\* hasattr(last_message, "tool_calls") and last_message.tool_calls
HasToolCalls(msg) == msg.type = "ai" /\ msg.tool_calls # <<>>

\* _should_continue that looks at the first tool call only.
_should_continue_FirstCallOnly(a, msgs) ==
    IF HasToolCalls(Last(msgs))
    THEN IF _requires_human_review(a, Last(msgs).tool_calls[1])
         THEN "human_review"
         ELSE "tools"
    ELSE "end"

\* _should_continue: the conditional edge after the agent node.
_should_continue(a, msgs) ==
    IF HasToolCalls(Last(msgs))
    THEN IF \E i \in 1..Len(Last(msgs).tool_calls) :
                _requires_human_review(a, Last(msgs).tool_calls[i])
         THEN "human_review"
         ELSE "tools"
    ELSE "end"

\* run(), lines 259-272: the initial state, the graph entered at "agent".
LoopInit ==
    /\ agent \in LoopAgents
    /\ node = "agent"
    /\ messages = <<[type |-> "human", content |-> <<"message", 0>>]>>
    /\ pending_approval = PyNone
    /\ tool_results = <<>>
    /\ llm_calls = 0
    /\ invoked = <<>>
    /\ response = PyNone

\* _call_agent and the conditional edge: the oracle answers with a message
\* proposing some tool calls, or none.
CallAgentWith(explored, proposals) ==
    /\ node = "agent"
    /\ llm_calls < explored
    /\ \E calls \in proposals :
        /\ messages' = Append(messages,
                              [type |-> "ai",
                               content |-> <<"answer", llm_calls + 1>>,
                               tool_calls |-> WithIds(calls, llm_calls + 1)])
    /\ llm_calls' = llm_calls + 1
    /\ node' = _should_continue(agent, messages')
    /\ UNCHANGED <<agent, pending_approval, tool_results, invoked, response>>
    /\ OutsideLoop

CallAgent == CallAgentWith(MaxOracleCalls, SeqsUpTo(LoopCalls, MaxToolCalls))

\* The oracle of a long task: every answer proposes one tool call, or none.
CallAgentLong == CallAgentWith(MaxLongCalls, SeqsUpTo(LoopCalls, 1))

\* _call_tools that executes the first tool call of the turn only.
CallTools_FirstOnly ==
    /\ node = "tools"
    /\ IF ~HasToolCalls(Last(messages))
       THEN /\ tool_results' = <<>>
            /\ UNCHANGED <<messages, invoked>>
       ELSE LET calls == SubSeq(Last(messages).tool_calls, 1, 1)
                results == [i \in 1..Len(calls) |->
                               [type |-> "tool", tool_call_id |-> calls[i].id]]
            IN  /\ invoked' = invoked \o [i \in 1..Len(calls) |-> calls[i].id]
                /\ messages' = messages \o results
                /\ tool_results' = results
    /\ node' = "agent"
    /\ UNCHANGED <<agent, pending_approval, llm_calls, response>>
    /\ OutsideLoop

\* _call_tools and the edge tools -> agent.
CallTools ==
    /\ node = "tools"
    /\ IF ~HasToolCalls(Last(messages))
       THEN /\ tool_results' = <<>>
            /\ UNCHANGED <<messages, invoked>>
       ELSE LET calls == Last(messages).tool_calls
                results == [i \in 1..Len(calls) |->
                               [type |-> "tool", tool_call_id |-> calls[i].id]]
            IN  /\ invoked' = invoked \o [i \in 1..Len(calls) |-> calls[i].id]
                /\ messages' = messages \o results
                /\ tool_results' = results
    /\ node' = "agent"
    /\ UNCHANGED <<agent, pending_approval, llm_calls, response>>
    /\ OutsideLoop

\* _human_review and the edge human_review -> agent.
HumanReview ==
    /\ node = "human_review"
    /\ pending_approval' =
           [agent_id |-> agent.agent_id,
            tool_calls |-> (IF Last(messages).type = "ai"
                            THEN Last(messages).tool_calls ELSE <<>>)]
    /\ node' = "agent"
    /\ UNCHANGED <<agent, messages, tool_results, llm_calls, invoked, response>>
    /\ OutsideLoop

\* run() that answers with the first message of the conversation.
ReturnResponse_FirstMessage ==
    /\ node = "end"
    /\ response' = [response |-> messages[1].content,
                    agent_id |-> agent.agent_id,
                    tool_results |-> tool_results,
                    pending_approval |-> pending_approval]
    /\ node' = "returned"
    /\ UNCHANGED <<agent, messages, pending_approval, tool_results, llm_calls,
                   invoked>>
    /\ OutsideLoop

\* run(), lines 274-288: the graph has ended and run returns.
ReturnResponse ==
    /\ node = "end"
    /\ response' = [response |-> Last(messages).content,
                    agent_id |-> agent.agent_id,
                    tool_results |-> tool_results,
                    pending_approval |-> pending_approval]
    /\ node' = "returned"
    /\ UNCHANGED <<agent, messages, pending_approval, tool_results, llm_calls,
                   invoked>>
    /\ OutsideLoop

LoopNext ==
    \/ CallAgent
    \/ CallTools
    \/ HumanReview
    \/ ReturnResponse

LoopIdle ==
    /\ agent = PriceCompareAgent
    /\ node = "idle"
    /\ messages = <<>>
    /\ pending_approval = PyNone
    /\ tool_results = <<>>
    /\ llm_calls = 0
    /\ invoked = <<>>
    /\ response = PyNone

\* ------------------------------------------- the factory and orchestrator
\* The agent classes registered with @AgentFactory.register, which are also
\* the agents the API hands to the orchestrator (api/main.py).
RegisteredAgents ==
    {"price-watch", "price-compare", "historical-price",
     "requisition", "approval-workflow", "vendor-selection"}

\* The agent ids callers ask for.
AgentIds == RegisteredAgents \cup {"invoice-matching", "nonexistent-agent"}

NoOutcome == [op |-> "none", agent_id |-> "none", outcome |-> "none"]

Outcome(op, agent_id, outcome) ==
    orch_out' = [op |-> op, agent_id |-> agent_id, outcome |-> outcome]

\* AgentFactory.get
AgentFactory_get(agent_id) ==
    /\ IF agent_id \notin f_instances
       THEN IF agent_id \notin RegisteredAgents
            THEN /\ Outcome("get", agent_id, "ValueError: Unknown agent")
                 /\ UNCHANGED f_instances
            ELSE /\ f_instances' = f_instances \cup {agent_id}
                 /\ Outcome("get", agent_id, "instance")
       ELSE /\ Outcome("get", agent_id, "instance")
            /\ UNCHANGED f_instances
    /\ UNCHANGED orch_runs
    /\ OutsideOrchestrator

\* AgentOrchestrator.execute that falls back to the default agent.
execute_FallsBack(agent_id) ==
    /\ Len(orch_runs) < MaxRuns
    /\ IF agent_id \notin RegisteredAgents
       THEN /\ orch_runs' = Append(orch_runs, "requisition")
            /\ Outcome("execute", agent_id, "result")
       ELSE /\ orch_runs' = Append(orch_runs, agent_id)
            /\ Outcome("execute", agent_id, "result")
    /\ UNCHANGED f_instances
    /\ OutsideOrchestrator

\* AgentOrchestrator.execute; the agent's run() returns its result.
execute(agent_id) ==
    /\ Len(orch_runs) < MaxRuns
    /\ IF agent_id \notin RegisteredAgents
       THEN /\ Outcome("execute", agent_id, "ValueError: Unknown agent")
            /\ UNCHANGED orch_runs
       ELSE /\ orch_runs' = Append(orch_runs, agent_id)
            /\ Outcome("execute", agent_id, "result")
    /\ UNCHANGED f_instances
    /\ OutsideOrchestrator

FactoryGet == \E agent_id \in AgentIds : AgentFactory_get(agent_id)

OrchestratorExecute == \E agent_id \in AgentIds : execute(agent_id)

OrchInit ==
    /\ f_instances = {}
    /\ orch_runs = <<>>
    /\ orch_out = NoOutcome

OrchIdle == OrchInit

OrchNext ==
    \/ FactoryGet
    \/ OrchestratorExecute

\* ------------------------------------------- the invoice validation workflow
\* The invoices validated. The ids have six characters, so that the
\* invoice_id[-6:] of create_exception is the id itself.
InvoiceIds == {"INV-01", "INV-02"}

\* Lines 164-174: parse_invoice.
parse_invoice(id) == [invoice_id |-> id, po_number |-> "PO-123456"]

\* What the collaborating activities may answer. The activities of lines
\* 177-212 are stubs that always answer a match; the workflow's branches are
\* written for every answer. An answer may lack the list of its issues.
IssueLists == {<<>>, <<"issue">>}

PoAnswers(inv) == {[found |-> f, po_number |-> inv.po_number] : f \in BOOLEAN}

LineAnswers ==
    {[all_matched |-> m, mismatches |-> x] : m \in BOOLEAN, x \in IssueLists}
        \cup {[all_matched |-> FALSE]}

PriceAnswers ==
    {[all_valid |-> v, violations |-> x] : v \in BOOLEAN, x \in IssueLists}
        \cup {[all_valid |-> FALSE]}

ReceiptAnswers ==
    {[all_received |-> r, issues |-> x] : r \in BOOLEAN, x \in IssueLists}
        \cup {[all_received |-> FALSE]}

\* Lines 221-228: create_exception.
create_exception(id, lm, pv, rc) == <<"EXC-", id>>

\* Line 486, negated: the run goes on past the PO lookup.
PoFound_Unchecked(pm) == TRUE

PoFound(pm) == pm.found

\* Lines 516-520: an invoice is approved without review.
AllPass_IgnoresReceipts(lm, pv, rc) == lm.all_matched /\ pv.all_valid

AllPass(lm, pv, rc) == lm.all_matched /\ pv.all_valid /\ rc.all_received

InvFresh ==
    /\ invoice = PyNone
    /\ po_match = PyNone
    /\ line_matches = PyNone
    /\ price_validation = PyNone
    /\ receipt_check = PyNone
    /\ inv_calls = <<>>
    /\ exception_args = <<>>
    /\ inv_result = NoResult

InvInit ==
    /\ invoice_id \in InvoiceIds
    /\ inv_pc = "parse_invoice"
    /\ InvFresh

InvIdle ==
    /\ invoice_id = "INV-01"
    /\ inv_pc = "idle"
    /\ InvFresh

\* An activity of the invoice run is executed.
Executed(activity) == inv_calls' = Append(inv_calls, activity)

InvReturn(r) ==
    /\ inv_result' = r
    /\ inv_pc' = "done"

\* Lines 472-477.
ParseInvoiceDone ==
    /\ inv_pc = "parse_invoice"
    /\ Executed("parse_invoice")
    /\ invoice' = parse_invoice(invoice_id)
    /\ inv_pc' = "find_matching_po"
    /\ UNCHANGED <<invoice_id, po_match, line_matches, price_validation,
                   receipt_check, exception_args, inv_result>>
    /\ OutsideInvoice

\* Lines 479-491.
FindMatchingPoDone ==
    /\ inv_pc = "find_matching_po"
    /\ Executed("find_matching_po")
    /\ \E pm \in PoAnswers(invoice) :
        /\ po_match' = pm
        /\ IF ~PoFound(pm)
           THEN InvReturn([status |-> "no_po_match", invoice_id |-> invoice_id,
                           requires_manual_review |-> TRUE])
           ELSE /\ inv_pc' = "match_invoice_lines"
                /\ UNCHANGED inv_result
    /\ UNCHANGED <<invoice_id, invoice, line_matches, price_validation,
                   receipt_check, exception_args>>
    /\ OutsideInvoice

\* Lines 493-498.
MatchInvoiceLinesDone ==
    /\ inv_pc = "match_invoice_lines"
    /\ Executed("match_invoice_lines")
    /\ line_matches' \in LineAnswers
    /\ inv_pc' = "validate_contract_prices"
    /\ UNCHANGED <<invoice_id, invoice, po_match, price_validation,
                   receipt_check, exception_args, inv_result>>
    /\ OutsideInvoice

\* Lines 500-505.
ValidateContractPricesDone ==
    /\ inv_pc = "validate_contract_prices"
    /\ Executed("validate_contract_prices")
    /\ price_validation' \in PriceAnswers
    /\ inv_pc' = "verify_receipts"
    /\ UNCHANGED <<invoice_id, invoice, po_match, line_matches, receipt_check,
                   exception_args, inv_result>>
    /\ OutsideInvoice

\* Lines 507-520.
VerifyReceiptsDone ==
    /\ inv_pc = "verify_receipts"
    /\ Executed("verify_receipts")
    /\ \E rc \in ReceiptAnswers :
        /\ receipt_check' = rc
        /\ inv_pc' = (IF AllPass(line_matches, price_validation, rc)
                      THEN "approve_invoice"
                      ELSE "create_exception")
    /\ UNCHANGED <<invoice_id, invoice, po_match, line_matches,
                   price_validation, exception_args, inv_result>>
    /\ OutsideInvoice

\* Lines 521-527.
ApproveInvoiceDone ==
    /\ inv_pc = "approve_invoice"
    /\ Executed("approve_invoice")
    /\ InvReturn([status |-> "approved", auto |-> TRUE])
    /\ UNCHANGED <<invoice_id, inv_locals, exception_args>>
    /\ OutsideInvoice

\* Lines 528-543.
CreateExceptionDone ==
    /\ inv_pc = "create_exception"
    /\ Executed("create_exception")
    /\ exception_args' =
           Append(exception_args,
                  <<invoice_id, line_matches, price_validation, receipt_check>>)
    /\ InvReturn(
           [status |-> "exception",
            exception_id |-> create_exception(invoice_id, line_matches,
                                              price_validation, receipt_check),
            issues |->
                [line_mismatches |-> Get(line_matches, "mismatches", <<>>),
                 price_violations |-> Get(price_validation, "violations", <<>>),
                 receipt_issues |-> Get(receipt_check, "issues", <<>>)]])
    /\ UNCHANGED <<invoice_id, inv_locals>>
    /\ OutsideInvoice

InvNext ==
    \/ ParseInvoiceDone
    \/ FindMatchingPoDone
    \/ MatchInvoiceLinesDone
    \/ ValidateContractPricesDone
    \/ VerifyReceiptsDone
    \/ ApproveInvoiceDone
    \/ CreateExceptionDone

\* ------------------------------------------------- routing and the chain
\* AgentOrchestrator.intent_patterns, in the order of the dict literal.
intent_patterns ==
    << [intent |-> "price",
        agents |-> <<"price-watch", "price-compare", "historical-price">>],
       [intent |-> "requisition",
        agents |-> <<"requisition", "approval-workflow">>],
       [intent |-> "invoice",
        agents |-> <<"invoice-matching", "contract-validator">>],
       [intent |-> "vendor",
        agents |-> <<"vendor-selection", "risk-vendor-health">>],
       [intent |-> "budget",
        agents |-> <<"budget-guardian", "spend-analytics">>],
       [intent |-> "compliance",
        agents |-> <<"compliance-agent", "supplier-diversity">>] >>

\* A message is its words, separated by blanks. No keyword of the table
\* occurs across two of these words.
Words ==
    {"price", "PRICE", "prices", "Requisition", "invoice", "vendor", "Budget",
     "compliance", "order", "status"}

ChatMessages == SeqsUpTo(Words, MaxWords)

\* str.lower() on a word
Lower(word) ==
    CASE word = "PRICE" -> "price"
      [] word = "Requisition" -> "requisition"
      [] word = "Budget" -> "budget"
      [] OTHER -> word

\* keyword in text, for a text of words: the keyword is a substring of a word.
InWord(keyword, word) ==
    \/ word = keyword
    \/ word = "prices" /\ keyword = "price"

In(keyword, text) == \E i \in 1..Len(text) : InWord(keyword, text[i])

\* The for loop of lines 356-358 from the k-th intent on, and line 361.
RECURSIVE RouteFrom(_, _)
RouteFrom(k, message_lower) ==
    IF k > Len(intent_patterns) THEN "requisition"
    ELSE IF In(intent_patterns[k].intent, message_lower)
         THEN intent_patterns[k].agents[1]
         ELSE RouteFrom(k + 1, message_lower)

\* route_message that compares the message as it is written.
route_message_CaseSensitive(message) == RouteFrom(1, message)

\* AgentOrchestrator.route_message
route_message(message) ==
    RouteFrom(1, [i \in 1..Len(message) |-> Lower(message[i])])

\* The agent ids a chat request may ask for; "" is a request without one.
ChatRequested == {"", "price-compare", "nonexistent-agent"}

NoReply == [status |-> 0]

ChatFresh ==
    /\ chat_agent_id = ""
    /\ chat_out = NoReply

ChatInit ==
    /\ chat_message \in ChatMessages
    /\ chat_requested \in ChatRequested
    /\ chat_pc = "determine_agent"
    /\ ChatFresh

ChatIdle ==
    /\ chat_message = <<>>
    /\ chat_requested = ""
    /\ chat_pc = "idle"
    /\ ChatFresh

\* api/main.py lines 179-184: the agent is the one asked for, or is routed.
DetermineAgent ==
    /\ chat_pc = "determine_agent"
    /\ chat_agent_id' = (IF chat_requested # "" THEN chat_requested
                         ELSE route_message(chat_message))
    /\ chat_pc' = "execute"
    /\ UNCHANGED <<chat_message, chat_requested, chat_out>>
    /\ OutsideChat

\* api/main.py lines 195-213 with AgentOrchestrator.execute (lines 372-376):
\* the agent's result is the reply, an exception is answered with status 500.
ChatExecute ==
    /\ chat_pc = "execute"
    /\ chat_out' = (IF chat_agent_id \notin RegisteredAgents
                    THEN [status |-> 500, detail |-> "Unknown agent"]
                    ELSE [status |-> 200, agent_id |-> chat_agent_id])
    /\ chat_pc' = "done"
    /\ UNCHANGED <<chat_message, chat_requested, chat_agent_id>>
    /\ OutsideChat

ChatNext ==
    \/ DetermineAgent
    \/ ChatExecute

\* The arguments of execute_chain: the agent ids, and the context: None, an
\* empty dict or a dict with an entry.
ChainIds == {"price-watch", "requisition", "nonexistent-agent"}

ChainContexts == {PyNone, EmptyDict, ("budget_code" :> "B-1")}

\* context or {}: the caller's dict when it is a non-empty dict.
Truthy(context) == context # PyNone /\ context # EmptyDict

ChainFresh ==
    /\ current_context = EmptyDict
    /\ current_message = <<"message", "user">>
    /\ ch_aliased = FALSE
    /\ ch_ran = <<>>
    /\ ch_out = [status |-> "none"]

ChainInit ==
    /\ ch_ids \in SeqsUpTo(ChainIds, MaxChain)
    /\ ch_arg \in ChainContexts
    /\ caller_context = ch_arg
    /\ ch_pc = "start"
    /\ ChainFresh

ChainIdle ==
    /\ ch_ids = <<>>
    /\ ch_arg = PyNone
    /\ caller_context = PyNone
    /\ ch_pc = "idle"
    /\ ChainFresh

\* base_agent.py lines 387-389.
ChainStart ==
    /\ ch_pc = "start"
    /\ ch_aliased' = Truthy(ch_arg)
    /\ current_context' = (IF Truthy(ch_arg) THEN ch_arg ELSE EmptyDict)
    /\ ch_pc' = "loop"
    /\ UNCHANGED <<ch_ids, ch_arg, caller_context, current_message, ch_ran,
                   ch_out>>
    /\ OutsideChain

\* The result of agent.run (lines 276-288), as far as the chain reads it.
RunResult(agent_id) ==
    [response |-> <<"answer", agent_id>>, agent_id |-> agent_id]

\* Lines 391-404: one iteration of the for loop. execute (lines 372-376)
\* raises for an unknown agent; execute_chain does not catch it.
ChainIteration ==
    /\ ch_pc = "loop"
    /\ Len(ch_ran) < Len(ch_ids)
    /\ LET agent_id == ch_ids[Len(ch_ran) + 1]
           written == ("previous_agent" :> agent_id)
                          @@ ("previous_result" :> RunResult(agent_id))
                          @@ current_context
       IN  IF agent_id \notin RegisteredAgents
           THEN /\ ch_out' = [status |-> "ValueError: Unknown agent"]
                /\ ch_pc' = "done"
                /\ UNCHANGED <<ch_ran, current_message, current_context,
                               caller_context>>
           ELSE /\ ch_ran' = Append(ch_ran, agent_id)
                /\ current_message' = RunResult(agent_id).response
                /\ current_context' = written
                /\ caller_context' = (IF ch_aliased THEN written
                                      ELSE caller_context)
                /\ UNCHANGED <<ch_out, ch_pc>>
    /\ UNCHANGED <<ch_ids, ch_arg, ch_aliased>>
    /\ OutsideChain

\* Line 406: the loop is over, the results are returned.
ChainReturn ==
    /\ ch_pc = "loop"
    /\ Len(ch_ran) = Len(ch_ids)
    /\ ch_out' = [status |-> "results"]
    /\ ch_pc' = "done"
    /\ UNCHANGED <<ch_ids, ch_arg, caller_context, current_context,
                   current_message, ch_aliased, ch_ran>>
    /\ OutsideChain

ChainNext ==
    \/ ChainStart
    \/ ChainIteration
    \/ ChainReturn

RouteIdle == ChatIdle /\ ChainIdle

\* ---------------------------------------------------------- specifications
\* The approval workflow.
Init == WfInit /\ GateIdle /\ ResIdle /\ LoopIdle /\ OrchIdle /\ InvIdle
    /\ RouteIdle

Next == WfNext

Spec == Init /\ [][Next]_vars

\* The approval workflow with failing attempts of the activities that have a
\* bounded retry policy, on the rush requisitions.
InitFail ==
    /\ Init
    /\ requisition.urgency = "rush"
    /\ requisition.total <= Dollars(3000)

NextFail ==
    \/ WfNext
    \/ ValidateBudgetFails
    \/ SendPoFails
    \/ NotificationFails
    \/ EscalationFails

SpecFail == InitFail /\ [][NextFail]_vars

\* The approval workflow under a worker that keeps executing the run: every
\* scheduled activity completes and every timer fires.  The requisitions are
\* those without approval tier and the rush one with a single tier.
InitLive ==
    /\ Init
    /\ \/ requisition.total <= Dollars(500)
       \/ requisition = [total |-> Dollars(3000), urgency |-> "rush"]

SpecLive == InitLive /\ [][Next]_vars /\ WF_vars(RunStep)

\* The end-to-end scenario of the 30,000 rush requisition, under a worker
\* that keeps executing the run.
InitScenario ==
    /\ requisition = ScenarioRequisition
    /\ run_pc = "init"
    /\ collab = "scenario"
    /\ WfFresh
    /\ GateIdle /\ ResIdle /\ LoopIdle /\ OrchIdle /\ InvIdle
    /\ RouteIdle

NextScenario ==
    \/ StartRun
    \/ ValidateBudgetDone
    \/ DetermineApproversDone
    \/ SendNotificationDone
    \/ CheckStatusDone
    \/ SleepPollDone
    \/ GeneratePoDone
    \/ SendPoDone
    \/ Signal

SpecScenario == InitScenario /\ [][NextScenario]_vars /\ WF_vars(RunStep)

\* The approval workflow with a status store: check_approval_status is given
\* the requisition's id (lines 373 and 406) and answers approved once an
\* approval is recorded for the requisition. Rush requisitions of one and of
\* two tiers.
InitStore ==
    /\ requisition \in {[total |-> Dollars(3000), urgency |-> "rush"],
                        [total |-> Dollars(6000), urgency |-> "rush"]}
    /\ run_pc = "init"
    /\ collab = "store"
    /\ WfFresh
    /\ GateIdle /\ ResIdle /\ LoopIdle /\ OrchIdle /\ InvIdle
    /\ RouteIdle

NextStore ==
    \/ StartRun
    \/ ValidateBudgetDone
    \/ DetermineApproversDone
    \/ SendNotificationDone
    \/ CheckStatusDone
    \/ SleepPollDone
    \/ EscalateDone
    \/ SleepGraceDone
    \/ FinalCheckDone
    \/ GeneratePoDone
    \/ SendPoDone
    \/ ApproverApproves

SpecStore == InitStore /\ [][NextStore]_vars

\* The approval workflow with status queries, on the rush requisitions of at
\* most one tier.
InitQuery ==
    /\ Init
    /\ requisition.urgency = "rush"
    /\ requisition.total <= Dollars(3000)

NextQuery ==
    \/ WfNext
    \/ get_status

SpecQuery == InitQuery /\ [][NextQuery]_vars

\* The human gate as a function of the agent and the tool call.
InitGate == GateInit /\ WfIdle /\ ResIdle /\ LoopIdle /\ OrchIdle /\ InvIdle
    /\ RouteIdle

NextGate == GateNext

SpecGate == InitGate /\ [][NextGate]_vars

\* The approver chain resolver as a function of the total.
InitResolver == ResInit /\ WfIdle /\ GateIdle /\ LoopIdle /\ OrchIdle /\ InvIdle
    /\ RouteIdle

NextResolver == ResNext

SpecResolver == InitResolver /\ [][NextResolver]_vars

\* The decision loop of one conversational task.
InitLoop == LoopInit /\ WfIdle /\ GateIdle /\ ResIdle /\ OrchIdle /\ InvIdle
    /\ RouteIdle

NextLoop == LoopNext

SpecLoop == InitLoop /\ [][NextLoop]_vars

\* The decision loop of a long conversational task.
NextLong ==
    \/ CallAgentLong
    \/ CallTools
    \/ HumanReview
    \/ ReturnResponse

SpecLong == InitLoop /\ [][NextLong]_vars

\* The agent factory and the orchestrator.
InitOrchestrator ==
    OrchInit /\ WfIdle /\ GateIdle /\ ResIdle /\ LoopIdle /\ InvIdle
    /\ RouteIdle

NextOrchestrator == OrchNext

SpecOrchestrator == InitOrchestrator /\ [][NextOrchestrator]_vars

\* The invoice validation workflow.
InitInvoice ==
    InvInit /\ WfIdle /\ GateIdle /\ ResIdle /\ LoopIdle /\ OrchIdle
    /\ RouteIdle

NextInvoice == InvNext

SpecInvoice == InitInvoice /\ [][NextInvoice]_vars

\* The chat endpoint with automatic routing.
InitChat ==
    ChatInit /\ ChainIdle /\ WfIdle /\ GateIdle /\ ResIdle /\ LoopIdle
    /\ OrchIdle /\ InvIdle

NextChat == ChatNext

SpecChat == InitChat /\ [][NextChat]_vars

\* A chain of agents.
InitChain ==
    ChainInit /\ ChatIdle /\ WfIdle /\ GateIdle /\ ResIdle /\ LoopIdle
    /\ OrchIdle /\ InvIdle

NextChain == ChainNext

SpecChain == InitChain /\ [][NextChain]_vars

\* ------------------------------------------------------------------ claims

\* C1: a Rejected signal delivered for tier k while the run polls for tier k
\* and before its deadline makes the run end as rejected, and no approver of
\* a later tier is notified.
C1_RejectedSignalEndsRun ==
    sig_rejected_level > 0 =>
        /\ \A l \in Levels : l > sig_rejected_level => notified[l] = 0
        /\ Terminated => result.status = "rejected"

\* C2: a tier whose deadline passes without an approval is escalated exactly
\* once, the run then sleeps 4 hours and checks once more, and a check that
\* still shows no approval ends the run as escalated_timeout, with no later
\* tier notified and no PO generated; no tier is left without an approval in
\* any other way.
C2_StateInv ==
    /\ \A l \in Levels : escalated[l] <= 1
    /\ run_pc = "escalate" =>
           now >= deadline /\ escalated[CurApprover.level] = 0
    /\ run_pc \in {"sleep_grace", "final_check"} =>
           escalated[CurApprover.level] = 1
    /\ (run_pc = "send_notification" /\ idx > 1) => status.approved
    /\ run_pc \in {"generate_po", "send_po"} => status.approved
    /\ (Terminated /\ idx > 0 /\ escalated[CurApprover.level] = 1
            /\ ~status.approved) =>
           result.status = "escalated_timeout"
    /\ (Terminated /\ result.status = "escalated_timeout") =>
           /\ escalated[CurApprover.level] = 1
           /\ po_generated = 0 /\ po_sent = 0
           /\ \A l \in Levels : l > CurApprover.level => notified[l] = 0

C2_GraceStep ==
    /\ (run_pc = "escalate" /\ run_pc' # "escalate") => run_pc' = "sleep_grace"
    /\ (run_pc = "sleep_grace" /\ run_pc' # "sleep_grace") =>
           run_pc' = "final_check" /\ now' = now + Hours(grace_hours)
    /\ (run_pc = "final_check" /\ run_pc' # "final_check" /\ ~status'.approved) =>
           run_pc' = "done" /\ result'.status = "escalated_timeout"

C2_EscalateOnceThenGrace == [](C2_StateInv) /\ [][C2_GraceStep]_vars

C2_Witness ==
    /\ Terminated /\ result.status = "escalated_timeout"
    /\ idx = 2 /\ escalated[2] = 1 /\ status = Pending

\* The AI message that proposed the tool call with id <<n, i>> is the n-th AI
\* message of the conversation.
RECURSIVE AiMessages(_)
AiMessages(msgs) ==
    IF msgs = <<>> THEN <<>>
    ELSE IF Head(msgs).type = "ai" THEN <<Head(msgs)>> \o AiMessages(Tail(msgs))
    ELSE AiMessages(Tail(msgs))

TurnGated(a, msg) ==
    \E i \in 1..Len(msg.tool_calls) : _requires_human_review(a, msg.tool_calls[i])

\* C3: when a tool call of a turn requires human review, no tool call of that
\* turn is executed, the tools node is not entered for that turn, and the
\* pending-approval marker records that turn's tool calls.
C3_GatedTurnExecutesNothing ==
    /\ \A k \in 1..Len(invoked) :
           ~TurnGated(agent, AiMessages(messages)[invoked[k][1]])
    /\ node = "tools" => ~TurnGated(agent, Last(messages))
    /\ node = "human_review" => TurnGated(agent, Last(messages))
    /\ (/\ node = "agent"
        /\ Last(messages).type = "ai"
        /\ TurnGated(agent, Last(messages))) =>
           /\ pending_approval # PyNone
           /\ pending_approval.tool_calls = Last(messages).tool_calls
           /\ pending_approval.agent_id = agent.agent_id

C3_Witness ==
    /\ node = "agent"
    /\ Last(messages).type = "ai"
    /\ Len(Last(messages).tool_calls) = 2
    /\ ~_requires_human_review(agent, Last(messages).tool_calls[1])
    /\ _requires_human_review(agent, Last(messages).tool_calls[2])
    /\ pending_approval # PyNone
    /\ invoked = <<>>

\* C4: once a turn has been gated the task is suspended: no further oracle
\* call is made and no tool is executed for the task.
C4_GatedTaskIsSuspended ==
    [][pending_approval # PyNone =>
          (llm_calls' = llm_calls /\ invoked' = invoked)]_vars

\* The chain the threshold table of the resolver's contract gives for a total.
TableRoles(total) ==
    IF total <= Dollars(500) THEN <<>>
    ELSE IF total <= Dollars(5000) THEN <<"manager">>
    ELSE IF total <= Dollars(25000) THEN <<"manager", "director">>
    ELSE IF total <= Dollars(100000) THEN <<"manager", "director", "vp">>
    ELSE <<"manager", "director", "vp", "cfo">>

\* C5: determine_approvers returns exactly the chain of the threshold table,
\* upper bounds inclusive: [] up to 500, [manager] up to 5000, [manager,
\* director] up to 25000, [manager, director, vp] up to 100000, and all four
\* above.
C5_ChainMatchesTable ==
    res_pc = "done" =>
        /\ Roles(chain_a) = TableRoles(res_a)
        /\ Roles(chain_b) = TableRoles(res_b)

C5_Witness ==
    /\ res_pc = "done"
    /\ res_a = Dollars(100000)
    /\ Roles(chain_a) = <<"manager", "director", "vp">>
    /\ res_b = Dollars(500) + 1
    /\ Roles(chain_b) = <<"manager">>

\* The monetary amount a tool call carries: for the default policy the
\* "amount" argument, for the requisition agent the sum over the items of a
\* create_requisition call of unit_price * quantity.
RECURSIVE LineTotal(_)
LineTotal(items) ==
    IF items = <<>> THEN 0
    ELSE (IF "unit_price" \in DOMAIN Head(items)
          THEN Head(items)["unit_price"]
               * (IF "quantity" \in DOMAIN Head(items)
                  THEN Head(items)["quantity"] ELSE 1)
          ELSE 0)
         + LineTotal(Tail(items))

HasAmount(a, call) ==
    IF a.kind = "requisition"
    THEN call.name = "create_requisition"
    ELSE "amount" \in DOMAIN call.args

AmountOf(a, call) ==
    IF a.kind = "requisition"
    THEN (IF "items" \in DOMAIN call.args THEN LineTotal(call.args["items"]) ELSE 0)
    ELSE call.args["amount"]

ExceedsThreshold(a, call) ==
    HasAmount(a, call) /\ AmountOf(a, call) > a.human_in_loop_threshold

\* C6 (as stated): the gate returns true if and only if the amount extracted
\* from the action is strictly greater than the agent's threshold.
C6_GateIffAmountExceeds ==
    (GateDone /\ gate_agent.kind \in {"base", "requisition"}) =>
        (gate_result <=> ExceedsThreshold(gate_agent, gate_call))

\* C6 (amended): for an agent whose threshold is positive, the gate returns
\* true if and only if the amount extracted from the action is strictly
\* greater than the threshold; an amount equal to the threshold is not gated.
C6_GateIffAmountExceedsPositiveThreshold ==
    (/\ GateDone
     /\ gate_agent.kind \in {"base", "requisition"}
     /\ gate_agent.human_in_loop_threshold > 0) =>
        (gate_result <=> ExceedsThreshold(gate_agent, gate_call))

C6_Witness ==
    /\ GateDone
    /\ gate_agent = RequisitionAgent
    /\ gate_call.name = "create_requisition"
    /\ HasAmount(gate_agent, gate_call)
    /\ AmountOf(gate_agent, gate_call) = gate_agent.human_in_loop_threshold
    /\ ~gate_result

C10_ForeignSignalIsNoOp ==
    [][\A a \in ApproverIds, ap \in BOOLEAN, r \in Reasons \cup {None} :
          (/\ approval_received(a, ap, r)
           /\ ~(WaitingOnTier /\ a = CurApprover.approver_id))
          => UNCHANGED <<approved, rejected, rejection_reason, current_step>>]_vars

\* C11: when an Approved and a Rejected signal of the waited-on approver are
\* both delivered for one tier, in either order, Rejected takes precedence:
\* the status snapshot never shows approved together with rejected, no PO is
\* generated and the run ends as rejected.
C11_RejectedTakesPrecedence ==
    (sig_approved_level > 0 /\ sig_approved_level = sig_rejected_level) =>
        /\ ~(approved /\ rejected)
        /\ po_generated = 0
        /\ Terminated => result.status = "rejected"

\* C13: when the last allowed attempt (the fifth) of send_po_to_vendor fails,
\* the run does not fail: it terminates as complete with the generated
\* po_number and sent_to_vendor = false.
C13_ExhaustedSendStillCompletes ==
    [][(SendPoFails /\ attempt + 1 = 5) =>
          /\ run_pc' = "done"
          /\ result'.status = "complete"
          /\ result'.po_number = generate_purchase_order(requisition)
          /\ result'.sent_to_vendor = FALSE]_vars

\* C14: a requisition whose total is not positive is refused at start: the
\* run performs no budget check, no approver resolution, no notification and
\* no PO generation for it, and it never ends as complete with a PO.
C14_NonPositiveTotalRefused ==
    requisition.total <= 0 =>
        /\ run_pc \in {"idle", "init", "done"}
        /\ approvers = <<>>
        /\ \A l \in Levels : notified[l] = 0
        /\ po_generated = 0
        /\ Terminated => result.status # "complete"

\* C15: when validate_budget reports available = false the run terminates
\* with status rejected for insufficient budget, and determine_approvers,
\* send_approval_notification, generate_purchase_order and send_po_to_vendor
\* are never invoked in that run.
C15_UnavailableBudgetRejects ==
    (budget_check # PyNone /\ ~budget_check.available) =>
        /\ Terminated
        /\ result.status = "rejected"
        /\ result.reason = "Insufficient budget"
        /\ resolutions = 0
        /\ \A l \in Levels : notified[l] = 0
        /\ po_generated = 0
        /\ po_sent = 0
        /\ run_pc \notin {"determine_approvers", "send_notification",
                          "generate_po_auto", "generate_po", "send_po"}

C15_Witness ==
    /\ budget_check = [available |-> FALSE]
    /\ requisition.total = Dollars(3000)
    /\ Terminated
    /\ result.status = "rejected"

\* C16: for a requisition with total <= 500, of any urgency, the approver
\* chain is empty and send_approval_notification, check_approval_status and
\* escalate_approval are never invoked; with the budget available the run
\* reaches the complete state with a PO number.
C16_NoTierInv ==
    requisition.total <= Dollars(500) =>
        /\ approvers = <<>>
        /\ \A l \in Levels : notified[l] = 0 /\ escalated[l] = 0
        /\ status = Pending
        /\ run_pc \notin {"send_notification", "check_status", "sleep_poll",
                          "escalate", "sleep_grace", "final_check"}
        /\ (Terminated /\ budget_check = [available |-> TRUE]) =>
               /\ result.status = "complete"
               /\ result.po_number = generate_purchase_order(requisition)
               /\ po_generated = 1

C16_SmallRequisitionCompletes ==
    /\ [](C16_NoTierInv)
    /\ (requisition.total <= Dollars(500)) ~> Terminated
    /\ (requisition.total <= Dollars(500)
            /\ budget_check = [available |-> TRUE])
          ~> (Terminated /\ result.status = "complete")

C16_Witness ==
    /\ requisition = [total |-> Dollars(300), urgency |-> "emergency"]
    /\ Terminated
    /\ result = [status |-> "complete", po_number |-> "PO-000001",
                 auto_approved |-> TRUE]
    /\ approved /\ rejected

\* The SLA of the claims' table: 48 hours for standard, 8 hours for rush and
\* emergency.
ClaimedSlaHours(urgency) ==
    CASE urgency = "standard" -> 48
      [] urgency = "rush" -> 8
      [] urgency = "emergency" -> 8

\* C18: for every tier, the deadline is the time at which that tier's wait
\* starts plus 48 hours when the urgency is standard, and plus 8 hours when
\* it is rush or emergency.
C18_DeadlineFromWaitStart ==
    WaitingOnTier =>
        deadline = wait_start + Hours(ClaimedSlaHours(requisition.urgency))

C18_Witness ==
    /\ WaitingOnTier
    /\ requisition.urgency = "emergency"
    /\ wait_start > RunStart
    /\ deadline = wait_start + Hours(8)
    /\ now > wait_start

\* C19 (as stated): for every tier of a run, the second and later ones
\* included, the deadline equals the run's start time plus the SLA hours of
\* the requisition's urgency.
C19_DeadlineFromRunStart ==
    WaitingOnTier =>
        deadline = RunStart + Hours(ClaimedSlaHours(requisition.urgency))

\* C19 (amended): the deadline of a tier is later than the run's start time
\* plus the SLA hours by exactly the time that passed between the start of
\* the run and the start of that tier's wait, which is never negative and
\* never decreases from one tier to the next.
C19_ShiftInv ==
    WaitingOnTier =>
        /\ wait_start >= RunStart
        /\ deadline - (RunStart + Hours(ClaimedSlaHours(requisition.urgency)))
             = wait_start - RunStart

C19_DeadlineShiftedByElapsedTime ==
    [](C19_ShiftInv) /\ [][wait_start' >= wait_start]_vars

C19_Witness ==
    /\ WaitingOnTier
    /\ idx = 2
    /\ requisition.urgency = "rush"
    /\ wait_start = RunStart + Hours(2)
    /\ deadline = RunStart + Hours(10)

\* C17: for the requisition of 30,000 with urgency rush the chain is
\* [manager, director, vp], each tier's deadline is 8 hours after that tier's
\* wait begins, and with the approvals of manager, director and vp recorded
\* 2h, 3h and 1h after their waits start the run reaches complete with a PO
\* number and sent_to_vendor = true, each tier notified once and no
\* escalation sent.
C17_ScenarioInv ==
    /\ resolutions > 0 =>
           [i \in 1..Len(approvers) |-> approvers[i].role]
               = <<"manager", "director", "vp">>
    /\ WaitingOnTier => deadline = wait_start + Hours(8)
    /\ \A l \in Levels : escalated[l] = 0 /\ notified[l] <= 1
    /\ run_pc \notin {"escalate", "sleep_grace", "final_check"}
    /\ Terminated =>
           /\ result = [status |-> "complete",
                        po_number |-> generate_purchase_order(requisition),
                        sent_to_vendor |-> TRUE]
           /\ \A l \in 1..3 : notified[l] = 1
           /\ po_generated = 1
           /\ now >= RunStart + Hours(2) + Hours(3) + Hours(1)

C20_OracleCallsWithinMaxIterations ==
    node # "idle" => llm_calls <= agent.max_iterations

\* C21: when no tool call of a turn is gated, every tool call proposed in
\* that turn is executed exactly once, in the proposed order, one tool-result
\* message with the matching tool_call_id is appended per call, and the loop
\* then goes back to the oracle.
C21_ToolsInv ==
    /\ \A i, j \in 1..Len(invoked) : invoked[i] = invoked[j] => i = j
    /\ node = "tools" =>
           HasToolCalls(Last(messages)) /\ ~TurnGated(agent, Last(messages))

C21_ToolsStep ==
    /\ (/\ node = "agent" /\ node' # "agent"
        /\ HasToolCalls(Last(messages'))
        /\ ~TurnGated(agent, Last(messages'))) => node' = "tools"
    /\ (node = "tools" /\ node' # "tools") =>
           LET calls == Last(messages).tool_calls
           IN  /\ Len(invoked') = Len(invoked) + Len(calls)
               /\ Len(messages') = Len(messages) + Len(calls)
               /\ \A i \in 1..Len(calls) :
                      /\ invoked'[Len(invoked) + i] = calls[i].id
                      /\ messages'[Len(messages) + i].type = "tool"
                      /\ messages'[Len(messages) + i].tool_call_id = calls[i].id
               /\ SubSeq(invoked', 1, Len(invoked)) = invoked
               /\ SubSeq(messages', 1, Len(messages)) = messages
               /\ node' = "agent"
               /\ llm_calls' = llm_calls

C21_UngatedTurnExecutesAll == [](C21_ToolsInv) /\ [][C21_ToolsStep]_vars

C21_Witness ==
    /\ node = "agent"
    /\ Len(messages) = 4
    /\ messages[2].type = "ai"
    /\ Len(messages[2].tool_calls) = 2
    /\ messages[3] = [type |-> "tool", tool_call_id |-> <<1, 1>>]
    /\ messages[4] = [type |-> "tool", tool_call_id |-> <<1, 2>>]
    /\ invoked = << <<1, 1>>, <<1, 2>> >>

\* C22: a conversational task ends exactly when the oracle's latest message
\* proposes no tool call; from then on no tool is executed and no oracle call
\* is made, and run returns that message's content as the response.
C22_EndInv ==
    /\ node \in {"end", "returned"} =>
           /\ Last(messages).type = "ai"
           /\ Last(messages).tool_calls = <<>>
    /\ node = "returned" =>
           /\ response # PyNone
           /\ response.response = Last(messages).content
           /\ response.response = <<"answer", llm_calls>>

C22_EndStep ==
    /\ (node = "agent" /\ node' # "agent") =>
           /\ Last(messages').type = "ai"
           /\ node' = "end" <=> Last(messages').tool_calls = <<>>
    /\ node' \in {"end", "returned"} => node \in {"agent", "end", "returned"}
    /\ node \in {"end", "returned"} =>
           /\ node' \in {"end", "returned"}
           /\ UNCHANGED <<llm_calls, invoked, messages>>

C22_EndsWhenNoToolCall == [](C22_EndInv) /\ [][C22_EndStep]_vars

C22_Witness ==
    /\ node = "returned"
    /\ llm_calls = 2
    /\ Len(invoked) = 2
    /\ response.response = <<"answer", 2>>

\* C23: asking for an agent id that is not registered fails at once with a
\* ValueError ("Unknown agent") and changes nothing: execute starts no agent
\* run, and AgentFactory.get creates and caches no instance.
C23_UnknownAgentFails ==
    [][\A agent_id \in AgentIds :
          (/\ agent_id \notin {"price-watch", "price-compare", "historical-price",
                               "requisition", "approval-workflow",
                               "vendor-selection"}
           /\ (AgentFactory_get(agent_id) \/ execute(agent_id)))
          => /\ orch_out'.outcome = "ValueError: Unknown agent"
             /\ orch_out'.agent_id = agent_id
             /\ UNCHANGED <<f_instances, orch_runs>>]_vars

C23_Witness ==
    /\ orch_out = [op |-> "execute", agent_id |-> "nonexistent-agent",
                   outcome |-> "ValueError: Unknown agent"]
    /\ orch_runs = <<"price-watch">>
    /\ f_instances = {"requisition"}

\* C24: a get_status query, at any point and any number of times, changes
\* nothing of the run: current_step, approved, rejected, rejection_reason,
\* the position of run(), its locals and the activities executed stay as
\* they are, and the query returns the four fields as they are.
C24_QueryChangesNothing ==
    [][get_status =>
          /\ UNCHANGED <<current_step, approved, rejected, rejection_reason>>
          /\ UNCHANGED <<requisition, run_pc, approvers, idx, now, deadline,
                         status, result, budget_check, wait_start, attempt>>
          /\ UNCHANGED <<notified, escalated, po_generated, po_sent,
                         resolutions>>
          /\ queried' = [current_step |-> current_step, approved |-> approved,
                         rejected |-> rejected,
                         rejection_reason |-> rejection_reason]]_vars

C24_Witness ==
    /\ queried = [current_step |-> "awaiting_approvals", approved |-> FALSE,
                  rejected |-> TRUE, rejection_reason |-> "over_budget"]
    /\ Terminated
    /\ result.status = "complete"
    /\ rejected /\ rejection_reason = "over_budget"

\* C25: a failure of the approver notification or of the escalation
\* notification never aborts the run: the step that follows a failed attempt
\* leaves the run alive, on its way to the tier's wait.
C25_NotificationIsBestEffort ==
    [][(NotificationFails \/ EscalationFails) => run_pc' # "done"]_vars

\* C26: the outcomes rejected, escalated_timeout and complete are final:
\* once run() has returned one of them no activity is executed, the outcome
\* stays as it is, and every status query returns the same four fields.
C26_TerminalOutcomes == {"rejected", "escalated_timeout", "complete"}

InvExecuted == {inv_calls[i] : i \in 1..Len(inv_calls)}

InvCount(activity) ==
    Cardinality({i \in 1..Len(inv_calls) : inv_calls[i] = activity})

\* C27: when find_matching_po answers found = false the run ends with status
\* no_po_match and requires_manual_review = true, and it has executed
\* parse_invoice and find_matching_po only: no line matching, no price
\* validation, no receipt check, no approval and no exception.
C27_NoPoMatchStopsRun ==
    (po_match # PyNone /\ ~po_match.found) =>
        /\ inv_pc = "done"
        /\ inv_result = [status |-> "no_po_match", invoice_id |-> invoice_id,
                         requires_manual_review |-> TRUE]
        /\ inv_calls = <<"parse_invoice", "find_matching_po">>
        /\ exception_args = <<>>

C27_Witness ==
    /\ inv_pc = "done"
    /\ po_match.found = FALSE
    /\ inv_result.status = "no_po_match"
    /\ invoice_id = "INV-02"

\* C28: when a PO is found, a run that has ended has executed the line
\* matching, the price validation and the receipt check once each, in that
\* order, whatever the earlier checks answered. It ends approved exactly when
\* all three passed, with approve_invoice executed and create_exception not;
\* otherwise it ends as an exception, with create_exception executed once on
\* the three check results, approve_invoice not executed, and the issues of
\* the three checks in its result.
C28_ThreeWayMatch ==
    (inv_pc = "done" /\ po_match.found) =>
        /\ SubSeq(inv_calls, 1, 5) =
               <<"parse_invoice", "find_matching_po", "match_invoice_lines",
                 "validate_contract_prices", "verify_receipts">>
        /\ Len(inv_calls) = 6
        /\ IF /\ line_matches.all_matched
              /\ price_validation.all_valid
              /\ receipt_check.all_received
           THEN /\ inv_result = [status |-> "approved", auto |-> TRUE]
                /\ inv_calls[6] = "approve_invoice"
                /\ exception_args = <<>>
           ELSE /\ inv_result.status = "exception"
                /\ inv_calls[6] = "create_exception"
                /\ exception_args = << <<invoice_id, line_matches,
                                         price_validation, receipt_check>> >>
                /\ inv_result.issues.line_mismatches =
                       (IF "mismatches" \in DOMAIN line_matches
                        THEN line_matches.mismatches ELSE <<>>)
                /\ inv_result.issues.price_violations =
                       (IF "violations" \in DOMAIN price_validation
                        THEN price_validation.violations ELSE <<>>)
                /\ inv_result.issues.receipt_issues =
                       (IF "issues" \in DOMAIN receipt_check
                        THEN receipt_check.issues ELSE <<>>)

C28_Witness ==
    /\ inv_pc = "done"
    /\ inv_result.status = "exception"
    /\ ~line_matches.all_matched
    /\ price_validation.all_valid
    /\ ~receipt_check.all_received
    /\ inv_result.issues.line_mismatches = <<"issue">>
    /\ inv_result.issues.receipt_issues = <<>>
    /\ InvCount("verify_receipts") = 1

\* s is a prefix of t.
IsPrefix(s, t) == Len(s) <= Len(t) /\ SubSeq(t, 1, Len(s)) = s

Ladder == <<"manager", "director", "vp", "cfo">>

\* C29: for two totals a <= b the chain of a is a prefix of the chain of b;
\* every chain is a prefix of the ladder manager, director, vp, cfo with the
\* levels 1, 2, 3, ... in order, no tier skipped; so the chain of a is no
\* longer than the chain of b.
C29_ChainsArePrefixes ==
    res_pc = "done" =>
        /\ IsPrefix(Roles(chain_a), Ladder)
        /\ IsPrefix(Roles(chain_b), Ladder)
        /\ \A i \in 1..Len(chain_a) : chain_a[i].level = i
        /\ \A i \in 1..Len(chain_b) : chain_b[i].level = i
        /\ res_a <= res_b =>
               /\ IsPrefix(chain_a, chain_b)
               /\ Len(chain_a) <= Len(chain_b)

C29_Witness ==
    /\ res_pc = "done"
    /\ res_a = Dollars(5000) + 1
    /\ res_b = Dollars(100000) + 1
    /\ Len(chain_a) = 2
    /\ Len(chain_b) = 4
    /\ IsPrefix(chain_a, chain_b)

\* The tool call carries no monetary amount the agent's policy can use: for
\* the default policy no "amount" argument; for the requisition agent a
\* create_requisition call with no items or whose items have no unit_price.
NoUsableAmount(a, call) ==
    CASE a.kind = "base" -> "amount" \notin DOMAIN call.args
      [] a.kind = "requisition" ->
            /\ call.name = "create_requisition"
            /\ \/ "items" \notin DOMAIN call.args
               \/ \A i \in 1..Len(call.args["items"]) :
                      "unit_price" \notin DOMAIN call.args["items"][i]
      [] OTHER -> FALSE

\* C30: a tool call that carries no usable monetary amount is not gated: the
\* human gate returns false.
C30_NoAmountNoGate ==
    (GateDone /\ NoUsableAmount(gate_agent, gate_call)) => ~gate_result

C30_Witness ==
    /\ GateDone
    /\ gate_agent.kind = "base"
    /\ gate_agent.human_in_loop_threshold = Dollars(1000)
    /\ gate_call.name = "create_requisition"
    /\ "amount" \notin DOMAIN gate_call.args
    /\ "items" \in DOMAIN gate_call.args
    /\ Len(gate_call.args["items"]) = 2
    /\ ~gate_result

\* C31: the approvers are notified in chain order, each tier at most once,
\* and the approver of a tier after the first is notified only when the last
\* status check, made while the run waited on the tier before, observed an
\* approval. The run is at one step at a time (run_pc).
C31_OrderInv ==
    /\ \A l \in Levels : notified[l] <= 1
    /\ \A l \in Levels :
           notified[l] = 1 =>
               /\ l <= Len(approvers)
               /\ approvers[l].level = l
               /\ l <= idx
               /\ \A k \in 1..(l - 1) : notified[k] = 1

C31_OrderStep ==
    SendNotificationDone =>
        /\ notified[CurApprover.level] = 0
        /\ \A l \in Levels : notified[l] = 1 <=> l < CurApprover.level
        /\ idx > 1 => status.approved

C31_NotifiedInChainOrder == [](C31_OrderInv) /\ [][C31_OrderStep]_vars

C31_Witness ==
    /\ idx = 2
    /\ notified[1] = 1
    /\ notified[2] = 1
    /\ escalated[1] = 1
    /\ run_pc = "check_status"
    /\ status.approved

\* The intents in the order the claim gives them, and the agent it names
\* for each.
ClaimedIntents ==
    <<"price", "requisition", "invoice", "vendor", "budget", "compliance">>

ClaimedAgent(intent) ==
    CASE intent = "price" -> "price-watch"
      [] intent = "requisition" -> "requisition"
      [] intent = "invoice" -> "invoice-matching"
      [] intent = "vendor" -> "vendor-selection"
      [] intent = "budget" -> "budget-guardian"
      [] intent = "compliance" -> "compliance-agent"

\* The intents whose keyword occurs in the message, whatever its case.
IntentsIn(message) ==
    {k \in 1..Len(ClaimedIntents) :
        \E i \in 1..Len(message) : InWord(ClaimedIntents[k], Lower(message[i]))}

\* C32: route_message returns the first agent of the first intent, in the
\* order price, requisition, invoice, vendor, budget, compliance, whose
\* keyword is a substring of the lower-cased message, and "requisition" when
\* there is none.
C32_RouteIsFirstMatch ==
    (chat_pc \in {"execute", "done"} /\ chat_requested = "") =>
        LET hits == IntentsIn(chat_message)
        IN  chat_agent_id =
                (IF hits = {} THEN "requisition"
                 ELSE ClaimedAgent(ClaimedIntents[
                          CHOOSE k \in hits : \A h \in hits : k <= h]))

C32_Witness ==
    /\ chat_pc = "execute"
    /\ chat_requested = ""
    /\ chat_message = <<"Budget", "prices">>
    /\ chat_agent_id = "price-watch"

\* C33: generate_purchase_order is executed only if the budget check answered
\* available and the approver of every tier of the chain has approved: the
\* approval of one tier does not let the run pass another tier.
C33_PoOnlyAfterEveryTierApproved ==
    po_generated > 0 =>
        /\ BudgetAvailable(budget_check)
        /\ \A i \in 1..Len(approvers) :
               store_approved_at[approvers[i].level] >= 0

\* C34: when the approval of the tier waited on is recorded strictly before
\* the tier's deadline, escalate_approval is not executed for the tier (and
\* so the 4 hour grace wait does not take place).
C34_ApprovedBeforeDeadlineNotEscalated ==
    [][EscalateDone =>
          ~(/\ store_approved_at[CurApprover.level] >= 0
            /\ store_approved_at[CurApprover.level] < deadline)]_vars

\* C35: a run ends as escalated_timeout only if the final check, at the end
\* of the grace period, found the tier undecided: neither approved nor
\* rejected. (A rejection found there ends the run as rejected.)
C35_TimeoutOnlyWhenUndecided ==
    (Terminated /\ result.status = "escalated_timeout") =>
        (~status.approved /\ ~status.rejected)

\* C36: a run that ends complete has executed generate_purchase_order and
\* then send_po_to_vendor, and its result carries sent_to_vendor; so does an
\* auto-approved run.
C36_CompleteRunSentPo ==
    (Terminated /\ result.status = "complete") =>
        /\ po_generated = 1
        /\ po_sent = 1
        /\ "sent_to_vendor" \in DOMAIN result

\* C37: the fields get_status reports agree with the run: approved is true
\* for every run that has generated a PO, and once the run has ended,
\* rejected is true with a rejection reason exactly when the run ended
\* rejected, the rejection for insufficient budget included.
C37_SnapshotAgreesWithOutcome ==
    /\ po_generated > 0 => approved
    /\ Terminated =>
           ((rejected /\ rejection_reason # None)
                <=> result.status = "rejected")

\* C38: when an id of agent_ids is not a known agent, execute_chain runs no
\* agent of the chain and leaves the caller's context as it was passed.
C38_NoPartialChain ==
    (\E i \in 1..Len(ch_ids) : ch_ids[i] \notin RegisteredAgents) =>
        /\ ch_ran = <<>>
        /\ caller_context = ch_arg

\* C39: a chat request that names no agent is never answered with an
\* "Unknown agent" error: the agent route_message returns is one the
\* orchestrator of the API has.
C39_RoutedAgentIsKnown ==
    (chat_requested = "" /\ chat_pc \in {"execute", "done"}) =>
        /\ chat_agent_id \in RegisteredAgents
        /\ chat_out.status # 500

\* C40: under a worker that keeps executing the run (every activity
\* completes, every timer fires) every started run ends rejected,
\* escalated_timeout or complete, whether or not an approver decides; while
\* the run waits on a tier the workflow time is at most one polling interval
\* and the 4 hour grace past the tier's deadline.
C40_WaitInv ==
    WaitingOnTier => now <= deadline + check_interval + Hours(grace_hours)

====
